---- MODULE Spec2Model ----
(***************************************************************************)
(* Background removal and canonicalisation pipeline of the keyboard sprite *)
(* extractor (Scripts/extract_keyboards.py, Scripts/extract_keyboards_v2.py*)
(* and Scripts/extract_keyboard_icons.py).                                 *)
(*                                                                         *)
(* Spec      : flood_fill_background, one loop iteration per step, in both *)
(*             source variants (variant 1 = extract_keyboards.py,          *)
(*             variant 2 = extract_keyboards_v2.py).                       *)
(* SpecFair  : Spec with the loop running on as long as a step is left.     *)
(* SpecFit   : fit_to_canvas / resize_to_standard on the sizes of the      *)
(*             sprite, with Python's float arithmetic.                     *)
(* SpecPaste : fit_to_canvas on small canvases, with their pixels.          *)
(* SpecCrop  : crop_to_content on RGBA buffers.                            *)
(* SpecSingle: process_single_keyboard, from the sampling of the           *)
(*             background to the fitted canvas.                            *)
(* SpecRefill: flood_fill_background called with one tolerance and again   *)
(*             with a tolerance not below it on the same region.           *)
(* SpecMask  : apply_alpha_mask on images and masks of any sizes.          *)
(* SpecSample: get_background_color.                                       *)
(* SpecDriver: process_contact_sheet and main with extract_keyboard on a   *)
(*             sheet of two cells.                                         *)
(* SpecStages: the same drivers, one stage of a cell per step.             *)
(* SpecRealpha: flood_fill_background on an RGBA region and on the region  *)
(*             with the same colours and other alpha values.               *)
(***************************************************************************)
EXTENDS Integers, Sequences, FiniteSets, TLC

VARIABLES
    variant,      \* which source file's flood_fill_background runs (1 or 2)
    width,        \* img.size[0]
    height,       \* img.size[1]
    pixels,       \* img.load(): [coordinate -> <<r, g, b>>]
    bg_color,     \* argument bg_color
    tolerance,    \* argument tolerance
    pc,           \* position in flood_fill_background
    queue,        \* the work queue (deque / list), a sequence of <<x, y>>
    visited,      \* visited flags, as the set of coordinates flagged
    alpha,        \* the mask: [coordinate -> 0 | 255]
    classified,   \* history: how many times each coordinate passed line 79
    \* fit_to_canvas / resize_to_standard
    fit_fn,        \* "fit_to_canvas" or "resize_to_standard"
    fit_pc,        \* position in the function
    img_width,     \* img.width
    img_height,    \* img.height
    target_width,  \* argument target_width
    target_height, \* argument target_height
    padding,       \* argument padding (0 in resize_to_standard)
    new_width,     \* local new_width / new_w
    new_height,    \* local new_height / new_h
    canvas,        \* the returned canvas: its size and the pasted rectangle
    \* crop_to_content
    crop_pc,       \* position in the function
    crop_img,      \* argument img: [width, height, pixels], pixels RGBA
    crop_padding,  \* argument padding
    bbox,          \* local bbox: None or <<left, upper, right, lower>>
    crop_box,      \* locals <<left, top, right, bottom>>
    crop_result,   \* the returned image
    crop_calls,    \* history: how many calls of crop_to_content were made
    crop_first,    \* history: the image the first call returned
    \* process_single_keyboard
    single_pc,        \* position in process_single_keyboard
    single_img,       \* local img: [width, height, pixels], pixels RGB
    single_tolerance, \* argument tolerance
    single_fit,       \* the arguments <<target_width, target_height, padding>>
    single_bg,        \* local bg_color
    single_alpha,     \* local alpha of extract_keyboard_with_transparency
    \* flood_fill_background called again with another tolerance
    prev_alpha,       \* history: the mask the first call returned
    prev_visited,     \* history: the visited flags at the first call's end
    \* apply_alpha_mask
    mask_variant,     \* which source file's apply_alpha_mask runs (1 or 2)
    mask_pc,          \* "call", "returned" or "raised"
    mask_img,         \* argument img
    mask_alpha,       \* argument alpha
    mask_result,      \* the returned image
    \* get_background_color
    sample_variant,   \* which source file's get_background_color runs
    sample_pc,        \* "call", "returned" or "raised"
    sample_img,       \* argument img
    sample_result,    \* the returned colour
    \* process_contact_sheet / main with extract_keyboard
    drv_variant,      \* which source file's driver runs (1 or 2)
    drv_pc,           \* "call", "loop", "done" or "raised"
    sheet,            \* the contact sheet: [width, height, pixels]
    grid,             \* <<rows, cols>>
    cells,            \* the cells in the order the loop takes them
    drv_bg,           \* bg_color of process_contact_sheet
    drv_i,            \* the index in cells of the cell the loop is at
    saved,            \* the files written: [name -> sprite]
    extracted,        \* the list extracted of process_contact_sheet
    \* flood_fill_background on a region with other alpha values
    other_pixels,     \* the region with its alpha channel replaced
    other_alpha,      \* the mask returned for other_pixels
    \* the loop body of the drivers, stage by stage
    stage,            \* the last stage of the cell that has finished
    cell_img,         \* local cell: the region cropped from the sheet
    cell_bg,          \* the bg_color the cell is filled against
    cell_alpha,       \* local alpha: the mask
    cell_rgba,        \* the image apply_alpha_mask returned
    cell_content,     \* the image crop_to_content returned
    cell_canvas,      \* the canvas fit_to_canvas returned
    \* fit_to_canvas with the pixels of the canvas
    resized,          \* local resized: the scaled sprite
    canvas_pixels     \* the pixels of the returned canvas

fillVars == <<variant, width, height, pixels, bg_color, tolerance, pc, queue,
              visited, alpha, classified>>

fitVars == <<fit_fn, fit_pc, img_width, img_height, target_width,
             target_height, padding, new_width, new_height, canvas>>

cropVars == <<crop_pc, crop_img, crop_padding, bbox, crop_box, crop_result,
              crop_calls, crop_first>>

singleVars == <<single_pc, single_img, single_tolerance, single_fit, single_bg,
                single_alpha>>

\* the variables of the components built on the three above
refillVars == <<prev_alpha, prev_visited>>

maskVars == <<mask_variant, mask_pc, mask_img, mask_alpha, mask_result>>

sampleVars == <<sample_variant, sample_pc, sample_img, sample_result>>

driverVars == <<drv_variant, drv_pc, sheet, grid, cells, drv_bg, drv_i, saved,
                extracted>>

realphaVars == <<other_pixels, other_alpha>>

\* the variables of the components added last
stageVars == <<stage, cell_img, cell_bg, cell_alpha, cell_rgba, cell_content,
               cell_canvas>>

pasteVars == <<resized, canvas_pixels>>

laterVars == <<realphaVars, stageVars, pasteVars>>

extraVars == <<singleVars, refillVars, maskVars, sampleVars, driverVars,
               laterVars>>

vars == <<fillVars, fitVars, cropVars, extraVars>>

----------------------------------------------------------------------------
(* Bounds of the model *)

MaxW == 3
MaxH == 3
MaxImgWidth == 117
MaxImgHeight == 39
MaxTarget == 2
MaxPadding == 1
MaxBufW == 4
MaxBufH == 4
MaxCropPadding == 2

----------------------------------------------------------------------------
(* Colours *)

White == <<255, 255, 255>>
Near  == <<255, 252, 251>>
Black == <<0, 0, 0>>

Palette == {White, Near, Black}
BgColors == {White}
Tolerances == {0, 5}

Sq(n) == n * n

\* the distance over every channel of c1, the alpha channel against 255
ColorDistanceSqWithAlpha(c1, c2) ==
    Sq(c1[1] - c2[1]) + Sq(c1[2] - c2[2]) + Sq(c1[3] - c2[3])
        + (IF Len(c1) = 4 THEN Sq(c1[4] - 255) ELSE 0)

\* color_distance(c1, c2) ** 2: the radicand of the Euclidean distance
ColorDistanceSq(c1, c2) ==
    Sq(c1[1] - c2[1]) + Sq(c1[2] - c2[2]) + Sq(c1[3] - c2[3])

\* color_distance(pixel, bg_color) <= tolerance.  The code compares the
\* square root of an integer d (0 <= d <= 3 * 255^2) with the tolerance; for
\* an integer tolerance t >= 0 the correctly rounded square root satisfies
\* sqrt(d) <= t exactly when d <= t * t.
WithinToleranceStrict(c, bg, tol) == ColorDistanceSq(c, bg) < Sq(tol)
WithinToleranceRedOnly(c, bg, tol) == Sq(c[1] - bg[1]) <= Sq(tol)
WithinToleranceInverted(c, bg, tol) == ColorDistanceSq(c, bg) >= Sq(tol)
WithinToleranceNoRoot(c, bg, tol) == ColorDistanceSq(c, bg) <= tol
WithinTolerance(c, bg, tol) == ColorDistanceSq(c, bg) <= Sq(tol)

----------------------------------------------------------------------------
(* Geometry *)

Coords(w, h) == (0 .. w - 1) \X (0 .. h - 1)

InBounds(c, w, h) == c[1] >= 0 /\ c[1] < w /\ c[2] >= 0 /\ c[2] < h

IsBorder(c, w, h) == c[1] = 0 \/ c[1] = w - 1 \/ c[2] = 0 \/ c[2] = h - 1

\* neighbors / directions, in source order
neighbors4 == << <<-1, 0>>, <<0, -1>>, <<0, 1>>, <<1, 0>> >>
neighbors == << <<-1, -1>>, <<-1, 0>>, <<-1, 1>>, <<0, -1>>,
                <<0, 1>>, <<1, -1>>, <<1, 0>>, <<1, 1>> >>

RECURSIVE SeqConcat(_)
SeqConcat(ss) == IF ss = << >> THEN << >> ELSE Head(ss) \o SeqConcat(Tail(ss))

\* the two seeding loops: (x, 0), (x, h-1) for each x, then (0, y), (w-1, y)
SeedQueue(w, h) ==
    SeqConcat([i \in 1 .. w |-> << <<i - 1, 0>>, <<i - 1, h - 1>> >>])
    \o SeqConcat([j \in 1 .. h |-> << <<0, j - 1>>, <<w - 1, j - 1>> >>])

\* the condition under which a neighbour is appended to the queue
EnqueueOK(v, n, w, h, vis) ==
    IF v = 1 THEN InBounds(n, w, h) /\ n \notin vis
             ELSE n \notin vis

\* the coordinates appended for a background pixel c, in source order
\* the first variant spreading to the four orthogonal neighbours only
AppendedOrthogonalV1(v, c, w, h, vis) ==
    IF v = 1
    THEN SelectSeq([i \in 1 .. Len(neighbors4) |->
                       <<c[1] + neighbors4[i][1], c[2] + neighbors4[i][2]>>],
                   LAMBDA n : EnqueueOK(v, n, w, h, vis))
    ELSE SelectSeq([i \in 1 .. Len(neighbors) |->
                       <<c[1] + neighbors[i][1], c[2] + neighbors[i][2]>>],
                   LAMBDA n : EnqueueOK(v, n, w, h, vis))

Appended(v, c, w, h, vis) ==
    SelectSeq([i \in 1 .. Len(neighbors) |->
                  <<c[1] + neighbors[i][1], c[2] + neighbors[i][2]>>],
              LAMBDA n : EnqueueOK(v, n, w, h, vis))

----------------------------------------------------------------------------
(* Inputs: regions of one base colour in which one or two pixels (c1, c2)   *)
(* have another colour; with other = base the region is uniform            *)

Regions(w, h) ==
    {[c \in Coords(w, h) |-> IF c \in {c1, c2} THEN other ELSE base] :
        <<base, other, c1, c2>> \in
            Palette \X Palette \X Coords(w, h) \X Coords(w, h)}

----------------------------------------------------------------------------
(* The components a specification does not run stay idle *)

FitIdle ==
    /\ fit_fn = "none" /\ fit_pc = "idle"
    /\ img_width = 0 /\ img_height = 0
    /\ target_width = 0 /\ target_height = 0 /\ padding = 0
    /\ new_width = 0 /\ new_height = 0
    /\ canvas = << >>

None == << >>

CropIdle ==
    /\ crop_pc = "idle" /\ crop_img = << >> /\ crop_padding = 0
    /\ bbox = None /\ crop_box = << >> /\ crop_result = << >>
    /\ crop_calls = 0 /\ crop_first = << >>

FillIdle ==
    /\ variant = 0 /\ width = 0 /\ height = 0 /\ pixels = << >>
    /\ bg_color = << >> /\ tolerance = 0 /\ pc = "idle" /\ queue = << >>
    /\ visited = {} /\ alpha = << >> /\ classified = << >>

SingleIdle ==
    /\ single_pc = "idle" /\ single_img = << >> /\ single_tolerance = 0
    /\ single_fit = << >> /\ single_bg = << >> /\ single_alpha = << >>

RefillIdle == prev_alpha = << >> /\ prev_visited = {}

DriverIdle ==
    /\ drv_variant = 0 /\ drv_pc = "idle" /\ sheet = << >> /\ grid = << >>
    /\ cells = << >> /\ drv_bg = << >> /\ drv_i = 0 /\ saved = << >>
    /\ extracted = << >>

SampleIdle ==
    /\ sample_variant = 0 /\ sample_pc = "idle" /\ sample_img = << >>
    /\ sample_result = << >>

RealphaIdle == other_pixels = << >> /\ other_alpha = << >>

StageIdle ==
    /\ stage = "idle" /\ cell_img = << >> /\ cell_bg = << >>
    /\ cell_alpha = << >> /\ cell_rgba = << >> /\ cell_content = << >>
    /\ cell_canvas = << >>

PasteIdle == resized = << >> /\ canvas_pixels = << >>

MaskIdle ==
    /\ mask_variant = 0 /\ mask_pc = "idle" /\ mask_img = << >>
    /\ mask_alpha = << >> /\ mask_result = << >>

\* every component built on the three above is idle, except the one named
ExtraIdle(running) ==
    /\ IF running = "single" THEN TRUE ELSE SingleIdle
    /\ IF running = "refill" THEN TRUE ELSE RefillIdle
    /\ IF running = "mask" THEN TRUE ELSE MaskIdle
    /\ IF running = "sample" THEN TRUE ELSE SampleIdle
    /\ IF running \in {"driver", "stages"} THEN TRUE ELSE DriverIdle
    /\ IF running = "stages" THEN TRUE ELSE StageIdle
    /\ IF running = "paste" THEN TRUE ELSE PasteIdle
    /\ IF running = "realpha" THEN TRUE ELSE RealphaIdle

----------------------------------------------------------------------------
(* flood_fill_background *)

Init ==
    /\ variant \in {1, 2}
    /\ width \in 1 .. MaxW
    /\ height \in 1 .. MaxH
    /\ pixels \in Regions(width, height)
    /\ bg_color \in BgColors
    /\ tolerance \in Tolerances
    /\ pc = "call"
    /\ queue = << >>
    /\ visited = {}
    /\ alpha = << >>
    /\ classified = << >>
    /\ FitIdle
    /\ CropIdle
    /\ ExtraIdle("none")

Front == Head(queue)

SeedTransparentMask ==
    /\ pc = "call"
    /\ alpha' = [c \in Coords(width, height) |-> 0]
    /\ visited' = {}
    /\ queue' = SeedQueue(width, height)
    /\ classified' = [c \in Coords(width, height) |-> 0]
    /\ pc' = "loop"
    /\ UNCHANGED <<extraVars, fitVars, cropVars, variant, width, height, pixels, bg_color, tolerance>>

\* lines 50-66 (v2: 39-56): allocate the mask and the flags, seed the queue
Seed ==
    /\ pc = "call"
    /\ alpha' = [c \in Coords(width, height) |-> 255]
    /\ visited' = {}
    /\ queue' = SeedQueue(width, height)
    /\ classified' = [c \in Coords(width, height) |-> 0]
    /\ pc' = "loop"
    /\ UNCHANGED <<extraVars, fitVars, cropVars, variant, width, height, pixels, bg_color, tolerance>>

\* line 74-75 (v2: 66-67): a dequeued coordinate outside the region is dropped
SkipOutOfBounds ==
    /\ pc = "loop" /\ queue # << >>
    /\ ~InBounds(Front, width, height)
    /\ queue' = Tail(queue)
    /\ UNCHANGED <<extraVars, fitVars, cropVars, variant, width, height, pixels, bg_color, tolerance, pc,
                   visited, alpha, classified>>

\* a dequeued coordinate already visited goes back to the end of the queue
SkipVisitedRequeues ==
    /\ pc = "loop" /\ queue # << >>
    /\ InBounds(Front, width, height)
    /\ Front \in visited
    /\ queue' = Tail(queue) \o <<Front>>
    /\ UNCHANGED <<extraVars, fitVars, cropVars, variant, width, height, pixels, bg_color, tolerance, pc,
                   visited, alpha, classified>>

\* line 76-77 (v2: 64-65): a dequeued coordinate already visited is dropped
SkipVisited ==
    /\ pc = "loop" /\ queue # << >>
    /\ InBounds(Front, width, height)
    /\ Front \in visited
    /\ queue' = Tail(queue)
    /\ UNCHANGED <<extraVars, fitVars, cropVars, variant, width, height, pixels, bg_color, tolerance, pc,
                   visited, alpha, classified>>

\* a pixel within tolerance made half transparent
VisitBackgroundSoft ==
    /\ pc = "loop" /\ queue # << >>
    /\ InBounds(Front, width, height)
    /\ Front \notin visited
    /\ WithinTolerance(pixels[Front], bg_color, tolerance)
    /\ visited' = visited \cup {Front}
    /\ alpha' = [alpha EXCEPT ![Front] = 128]
    /\ queue' = Tail(queue) \o Appended(variant, Front, width, height, visited')
    /\ classified' = [classified EXCEPT ![Front] = @ + 1]
    /\ UNCHANGED <<extraVars, fitVars, cropVars, variant, width, height, pixels, bg_color, tolerance, pc>>

\* lines 79-90 (v2: 69-82), distance <= tolerance: transparent, enqueue
VisitBackground ==
    /\ pc = "loop" /\ queue # << >>
    /\ InBounds(Front, width, height)
    /\ Front \notin visited
    /\ WithinTolerance(pixels[Front], bg_color, tolerance)
    /\ visited' = visited \cup {Front}
    /\ alpha' = [alpha EXCEPT ![Front] = 0]
    /\ queue' = Tail(queue) \o Appended(variant, Front, width, height, visited')
    /\ classified' = [classified EXCEPT ![Front] = @ + 1]
    /\ UNCHANGED <<extraVars, fitVars, cropVars, variant, width, height, pixels, bg_color, tolerance, pc>>

VisitForegroundSpreads ==
    /\ pc = "loop" /\ queue # << >>
    /\ InBounds(Head(queue), width, height)
    /\ Head(queue) \notin visited
    /\ ~WithinTolerance(pixels[Head(queue)], bg_color, tolerance)
    /\ visited' = visited \cup {Head(queue)}
    /\ queue' = Tail(queue)
                 \o Appended(variant, Head(queue), width, height, visited')
    /\ classified' = [classified EXCEPT ![Head(queue)] = @ + 1]
    /\ UNCHANGED <<extraVars, fitVars, cropVars, variant, width, height, pixels, bg_color, tolerance, pc,
                   alpha>>

\* a dequeued coordinate outside the region is marked visited
VisitForegroundUnchecked ==
    /\ pc = "loop" /\ queue # << >>
    /\ Front \notin visited
    /\ InBounds(Front, width, height) =>
          ~WithinTolerance(pixels[Front], bg_color, tolerance)
    /\ visited' = visited \cup {Front}
    /\ queue' = Tail(queue)
    /\ classified' = IF InBounds(Front, width, height)
                     THEN [classified EXCEPT ![Front] = @ + 1]
                     ELSE classified
    /\ UNCHANGED <<extraVars, fitVars, cropVars, variant, width, height, pixels, bg_color, tolerance, pc,
                   alpha>>

\* lines 79-83 (v2: 69-77), distance > tolerance: visited, left opaque
VisitForeground ==
    /\ pc = "loop" /\ queue # << >>
    /\ InBounds(Front, width, height)
    /\ Front \notin visited
    /\ ~WithinTolerance(pixels[Front], bg_color, tolerance)
    /\ visited' = visited \cup {Front}
    /\ queue' = Tail(queue)
    /\ classified' = [classified EXCEPT ![Front] = @ + 1]
    /\ UNCHANGED <<extraVars, fitVars, cropVars, variant, width, height, pixels, bg_color, tolerance, pc,
                   alpha>>

\* line 92 (v2: 84): the queue is empty, the mask is returned
Return ==
    /\ pc = "loop" /\ queue = << >>
    /\ pc' = "done"
    /\ UNCHANGED <<extraVars, fitVars, cropVars, variant, width, height, pixels, bg_color, tolerance, queue,
                   visited, alpha, classified>>

Next ==
    \/ Seed
    \/ SkipOutOfBounds
    \/ SkipVisited
    \/ VisitBackground
    \/ VisitForeground
    \/ Return

Spec == Init /\ [][Next]_vars

\* the function runs to its end: no step of it waits for anything
SpecFair == Init /\ [][Next]_vars /\ WF_vars(Next)

----------------------------------------------------------------------------
(* flood_fill_background on regions holding the colour (250, 250, 250),    *)
(* called with one tolerance and then, on the same region, with a          *)
(* tolerance that is not lower                                             *)

Mid == <<250, 250, 250>>

\* regions of one base colour in which the pixels at c1 and c2 are Mid
MidRegions(w, h) ==
    {[c \in Coords(w, h) |-> IF c \in {c1, c2} THEN Mid ELSE base] :
        <<base, c1, c2>> \in {White, Mid, Black} \X Coords(w, h) \X Coords(w, h)}

\* the tolerances of the two calls: 442 exceeds the distance of black from
\* white
RefillTolerances == {0, 5, 10, 442}

InitRefill ==
    /\ variant \in {1, 2}
    /\ width \in 1 .. MaxW
    /\ height \in 1 .. MaxH
    /\ pixels \in MidRegions(width, height)
    /\ bg_color \in BgColors
    /\ tolerance \in RefillTolerances
    /\ pc = "call"
    /\ queue = << >>
    /\ visited = {}
    /\ alpha = << >>
    /\ classified = << >>
    /\ FitIdle
    /\ CropIdle
    /\ ExtraIdle("refill")
    /\ prev_alpha = << >> /\ prev_visited = {}

\* the call has returned; flood_fill_background is called on the same region
\* and background colour with a tolerance that is not lower
Refill ==
    /\ pc = "done"
    /\ prev_alpha = << >>
    /\ \E t2 \in RefillTolerances : t2 >= tolerance /\ tolerance' = t2
    /\ prev_alpha' = alpha
    /\ prev_visited' = visited
    /\ pc' = "call"
    /\ queue' = << >> /\ visited' = {} /\ alpha' = << >> /\ classified' = << >>
    /\ UNCHANGED <<fitVars, cropVars, singleVars, maskVars, sampleVars,
                   driverVars, laterVars, variant, width, height, pixels, bg_color>>

NextRefill ==
    \/ Seed
    \/ SkipOutOfBounds
    \/ SkipVisited
    \/ VisitBackground
    \/ VisitForeground
    \/ Return
    \/ Refill

SpecRefill == InitRefill /\ [][NextRefill]_vars

----------------------------------------------------------------------------
(* Python float arithmetic: int(k * (a / d)) for integers k >= 0, d >= 1   *)
(*                                                                         *)
(* a / d is the IEEE-754 double nearest to the quotient, k * (a / d) the   *)
(* double nearest to the product, int() truncates towards zero.  When the  *)
(* exact product k*a/d is not an integer it lies at least 1/d from one,    *)
(* far more than the rounding error, and int() gives its floor.  When it   *)
(* is an integer n, the result is n unless the quotient was rounded down   *)
(* by so much that the product rounds to the double below n; then it is    *)
(* n - 1.                                                                  *)

RECURSIVE Pow2(_)
Pow2(n) == IF n <= 0 THEN 1 ELSE 2 * Pow2(n - 1)

\* 2^p mod m
RECURSIVE Pow2Mod(_, _)
Pow2Mod(p, m) == IF p = 0 THEN 1 % m ELSE (2 * Pow2Mod(p - 1, m)) % m

\* the exponent e of the double a / d: 2^e <= a/d < 2^(e+1), for a, d >= 1
RECURSIVE ExpUp(_, _, _)
ExpUp(a, d, e) == IF Pow2(e + 1) * d <= a THEN ExpUp(a, d, e + 1) ELSE e
RECURSIVE ExpDown(_, _, _)
ExpDown(a, d, j) == IF a * Pow2(j) < d THEN ExpDown(a, d, j + 1) ELSE 0 - j
Exponent(a, d) == IF a >= d THEN ExpUp(a, d, 0) ELSE ExpDown(a, d, 0)

\* a / d has a 53-bit significand M = round(a * 2^(52-e) / d); Remainder is
\* a * 2^(52-e) mod d, the part of the quotient the rounding drops (when
\* 2 * Remainder < d) or makes up for (when 2 * Remainder > d)
Remainder(a, d) == (a * Pow2Mod(52 - Exponent(a, d), d)) % d

\* for k * a = n * d: the double product k * (a / d) is below n
ProductRoundsBelow(k, a, d) ==
    LET rem == Remainder(a, d)
        n   == (k * a) \div d
        f   == Exponent(n, 1)
        ex  == Exponent(a, d) + 1 - f + (IF n = Pow2(f) THEN 1 ELSE 0)
    IN  /\ rem # 0
        /\ 2 * rem < d
        /\ k * rem * Pow2(ex) > d * Pow2(0 - ex)

\* int(k * (a / d))
RECURSIVE TruncScaled(_, _, _)
TruncScaled(k, a, d) ==
    IF k = 0 \/ a = 0 THEN 0
    ELSE IF a < 0 THEN 0 - TruncScaled(k, 0 - a, d)
    ELSE IF (k * a) % d # 0 THEN (k * a) \div d
    ELSE IF ProductRoundsBelow(k, a, d) THEN ((k * a) \div d) - 1
    ELSE (k * a) \div d

----------------------------------------------------------------------------
(* fit_to_canvas (extract_keyboards.py, extract_keyboards_v2.py) and        *)
(* resize_to_standard (extract_keyboard_icons.py)                           *)

TARGET_WIDTH == 400
TARGET_HEIGHT == 140
STANDARD_WIDTH == 400
STANDARD_HEIGHT == 300
PaddingV1 == 8
PaddingV2 == 6

\* the calls: <<function, target_width, target_height, padding>>
FitCalls ==
    {<<"fit_to_canvas", TARGET_WIDTH, TARGET_HEIGHT, PaddingV1>>,
     <<"fit_to_canvas", TARGET_WIDTH, TARGET_HEIGHT, PaddingV2>>,
     <<"resize_to_standard", STANDARD_WIDTH, STANDARD_HEIGHT, 0>>}
    \cup {<<"fit_to_canvas", tw, th, p>> :
            <<tw, th, p>> \in (1 .. MaxTarget) \X (1 .. MaxTarget) \X (0 .. MaxPadding)}
    \cup {<<"resize_to_standard", tw, th, 0>> :
            <<tw, th>> \in (1 .. MaxTarget) \X (1 .. MaxTarget)}

\* available_width / available_height
Available(target, pad) == target - (pad * 2)

\* scale = min(scale_w, scale_h) is scale_w: available_width / img.width <=
\* available_height / img.height (img.width, img.height >= 1)
ScaleIsWidthMax(aw, ah, w, h) == aw * h >= ah * w
ScaleIsWidth(aw, ah, w, h) == aw * h <= ah * w

\* int(n * scale)
Scaled(n, aw, ah, w, h) ==
    IF ScaleIsWidth(aw, ah, w, h) THEN TruncScaled(n, aw, w)
                                  ELSE TruncScaled(n, ah, h)

\* the sprite flush with the far edge
CentreFlushFar(target, new) == target - new

\* (target - new) // 2
Centre(target, new) == (target - new) \div 2

NewCanvasSwapped(tw, th, x, y, nw, nh) ==
    [width |-> th, height |-> tw, box |-> <<x, y, x + nw, y + nh>>]
\* Image.new('RGBA', (target_width, target_height), (0, 0, 0, 0)) with the
\* resized sprite pasted at (x, y): the canvas size and the pasted rectangle
NewCanvas(tw, th, x, y, nw, nh) ==
    [width |-> tw, height |-> th, box |-> <<x, y, x + nw, y + nh>>]

InitFit ==
    /\ FillIdle
    /\ CropIdle
    /\ ExtraIdle("none")
    /\ \E call \in FitCalls :
          /\ fit_fn = call[1]
          /\ target_width = call[2]
          /\ target_height = call[3]
          /\ padding = call[4]
    /\ img_width \in 1 .. MaxImgWidth
    /\ img_height \in 1 .. MaxImgHeight
    /\ fit_pc = "call"
    /\ new_width = 0 /\ new_height = 0
    /\ canvas = << >>

\* lines 135-145 (v2: 113-126; icons: 135-141): the scaled size
FitScale ==
    /\ fit_pc = "call"
    /\ new_width' = Scaled(img_width, Available(target_width, padding),
                           Available(target_height, padding), img_width, img_height)
    /\ new_height' = Scaled(img_height, Available(target_width, padding),
                            Available(target_height, padding), img_width, img_height)
    /\ fit_pc' = "scaled"
    /\ UNCHANGED <<extraVars, fillVars, cropVars, fit_fn, img_width, img_height, target_width,
                   target_height, padding, canvas>>

\* line 146 (v2: 127; icons: 142): Image.resize raises ValueError ("height
\* and width must be > 0") for a size below 1 x 1
FitResizeRaises ==
    /\ fit_pc = "scaled"
    /\ (new_width < 1 \/ new_height < 1)
    /\ fit_pc' = "raised"
    /\ UNCHANGED <<extraVars, fillVars, cropVars, fit_fn, img_width, img_height, target_width,
                   target_height, padding, new_width, new_height, canvas>>

\* lines 146-157 (v2: 127-142; icons: 142-156): resize, new canvas, centre,
\* paste, return
FitPaste ==
    /\ fit_pc = "scaled"
    /\ new_width >= 1 /\ new_height >= 1
    /\ canvas' = NewCanvas(target_width, target_height,
                           Centre(target_width, new_width),
                           Centre(target_height, new_height),
                           new_width, new_height)
    /\ fit_pc' = "returned"
    /\ UNCHANGED <<extraVars, fillVars, cropVars, fit_fn, img_width, img_height, target_width,
                   target_height, padding, new_width, new_height>>

NextFit ==
    \/ FitScale
    \/ FitResizeRaises
    \/ FitPaste

SpecFit == InitFit /\ [][NextFit]_vars

----------------------------------------------------------------------------
(* crop_to_content (extract_keyboards.py, extract_keyboards_v2.py)          *)

\* RGBA pixel values: background made transparent, opaque content, and a
\* partly transparent pixel
Clear == <<255, 255, 255, 0>>
Solid == <<0, 0, 0, 255>>
Half  == <<128, 128, 128, 128>>
Blank == <<0, 0, 0, 0>>

RGBAPalette == {Clear, Solid, Half}

\* buffers of one base value in which one or two pixels have another value
Buffers(w, h) ==
    {[width |-> w, height |-> h,
      pixels |-> [c \in Coords(w, h) |-> IF c \in {c1, c2} THEN other ELSE base]] :
        <<base, other, c1, c2>> \in
            RGBAPalette \X RGBAPalette \X Coords(w, h) \X Coords(w, h)}

SetMin(S) == CHOOSE m \in S : \A n \in S : m <= n
SetMax(S) == CHOOSE m \in S : \A n \in S : m >= n
Min(a, b) == IF a <= b THEN a ELSE b
Max(a, b) == IF a >= b THEN a ELSE b

\* Image.getbbox() of an RGBA image: the bounding box of the pixels whose
\* alpha is not 0, right and lower exclusive; None when there is none
GetBBox(img) ==
    LET S == {c \in Coords(img.width, img.height) : img.pixels[c][4] # 0}
    IN  IF S = {} THEN None
        ELSE <<SetMin({c[1] : c \in S}), SetMin({c[2] : c \in S}),
               SetMax({c[1] : c \in S}) + 1, SetMax({c[2] : c \in S}) + 1>>

PadBoxUnclamped(b, p, w, h) == <<b[1] - p, b[2] - p, b[3] + p, b[4] + p>>
PadBoxInclusive(b, p, w, h) ==
    <<Max(0, b[1] - p), Max(0, b[2] - p),
      Min(w, b[3] + p - 1), Min(h, b[4] + p - 1)>>
\* lines 121-124 (v2: 100-103): add the padding and clamp to the image
PadBox(b, p, w, h) ==
    <<Max(0, b[1] - p), Max(0, b[2] - p), Min(w, b[3] + p), Min(h, b[4] + p)>>

\* Image.crop(box): the pixels of the box; those outside the image are blank
Crop(img, box) ==
    [width |-> box[3] - box[1], height |-> box[4] - box[2],
     pixels |-> [c \in Coords(box[3] - box[1], box[4] - box[2]) |->
                    LET s == <<c[1] + box[1], c[2] + box[2]>>
                    IN  IF InBounds(s, img.width, img.height)
                        THEN img.pixels[s] ELSE Blank]]

InitCrop ==
    /\ FillIdle
    /\ FitIdle
    /\ ExtraIdle("none")
    /\ \E w \in 1 .. MaxBufW, h \in 1 .. MaxBufH : crop_img \in Buffers(w, h)
    /\ crop_padding \in 0 .. MaxCropPadding
    /\ crop_pc = "call"
    /\ bbox = None /\ crop_box = << >> /\ crop_result = << >>
    /\ crop_calls = 1 /\ crop_first = << >>

\* line 116 (v2: 96)
CropGetBBox ==
    /\ crop_pc = "call"
    /\ bbox' = GetBBox(crop_img)
    /\ crop_pc' = "bbox"
    /\ UNCHANGED <<extraVars, fillVars, fitVars, crop_img, crop_padding, crop_box,
                   crop_result, crop_calls, crop_first>>

CropEmptyCropsAnyway ==
    /\ crop_pc = "bbox"
    /\ bbox = None
    /\ crop_box' = PadBox(<<0, 0, 0, 0>>, crop_padding, crop_img.width,
                          crop_img.height)
    /\ crop_result' = Crop(crop_img, crop_box')
    /\ crop_pc' = "returned"
    /\ UNCHANGED <<extraVars, fillVars, fitVars, crop_img, crop_padding, bbox, crop_calls,
                   crop_first>>

\* lines 117-118 (v2: 97, 105): no bounding box, the image itself is returned
CropEmpty ==
    /\ crop_pc = "bbox"
    /\ bbox = None
    /\ crop_result' = crop_img
    /\ crop_pc' = "returned"
    /\ UNCHANGED <<extraVars, fillVars, fitVars, crop_img, crop_padding, bbox, crop_box,
                   crop_calls, crop_first>>

\* lines 121-126 (v2: 98-104): pad, clamp, crop
CropBox ==
    /\ crop_pc = "bbox"
    /\ bbox # None
    /\ crop_box' = PadBox(bbox, crop_padding, crop_img.width, crop_img.height)
    /\ crop_result' = Crop(crop_img, crop_box')
    /\ crop_pc' = "returned"
    /\ UNCHANGED <<extraVars, fillVars, fitVars, crop_img, crop_padding, bbox, crop_calls,
                   crop_first>>

\* lines 113-126 (v2: 94-105): crop_to_content is called once more, with
\* the same padding, on the image the first call returned
CropAgain ==
    /\ crop_pc = "returned"
    /\ crop_calls = 1
    /\ crop_first' = crop_result
    /\ crop_img' = crop_result
    /\ crop_calls' = 2
    /\ crop_pc' = "call"
    /\ bbox' = None /\ crop_box' = << >> /\ crop_result' = << >>
    /\ UNCHANGED <<extraVars, fillVars, fitVars, crop_padding>>

NextCrop ==
    \/ CropGetBBox
    \/ CropEmpty
    \/ CropBox
    \/ CropAgain

SpecCrop == InitCrop /\ [][NextCrop]_vars

----------------------------------------------------------------------------
(* fit_to_canvas with the pixels of the canvas: Image.new, resize and       *)
(* canvas.paste(resized, (x, y), resized)                                  *)

MaxPasteTarget == 4
MaxPasteImg == 4

\* a canvas created white and opaque
BlankCanvasWhite(tw, th) == [c \in Coords(tw, th) |-> <<255, 255, 255, 255>>]

\* line 149 (v2: 130): Image.new('RGBA', (target_width, target_height),
\* (0, 0, 0, 0))
BlankCanvas(tw, th) == [c \in Coords(tw, th) |-> <<0, 0, 0, 0>>]

\* the rounded division by 255 of Pillow's paste: ((n + 128) + ((n + 128)
\* >> 8)) >> 8
DivRound255(n) == ((n + 128) + ((n + 128) \div 256)) \div 256

\* one pixel of paste with an RGBA mask: every channel of the canvas moves
\* towards the sprite's by the sprite's alpha
Blend(d, s) ==
    [k \in 1 .. 4 |-> DivRound255(s[4] * s[k] + (255 - s[4]) * d[k])]

\* line 155 (v2: 134): canvas.paste(resized, (x, y), resized); the part of
\* the sprite outside the canvas is cut off
Paste(dst, src, x, y) ==
    [c \in DOMAIN dst |->
        LET s == <<c[1] - x, c[2] - y>>
        IN  IF InBounds(s, src.width, src.height)
            THEN Blend(dst[c], src.pixels[s]) ELSE dst[c]]

\* what img.resize may return: sprites of the new size of one value in which
\* one pixel has another value
ResizedSprites(w, h) ==
    {[width |-> w, height |-> h,
      pixels |-> [c \in Coords(w, h) |-> IF c = c1 THEN other ELSE base]] :
        <<base, other, c1>> \in RGBAPalette \X RGBAPalette \X Coords(w, h)}

InitPaste ==
    /\ FillIdle
    /\ CropIdle
    /\ ExtraIdle("paste")
    /\ fit_fn = "fit_to_canvas"
    /\ target_width \in 1 .. MaxPasteTarget
    /\ target_height \in 1 .. MaxPasteTarget
    /\ padding \in 0 .. MaxPadding
    /\ img_width \in 1 .. MaxPasteImg
    /\ img_height \in 1 .. MaxPasteImg
    /\ fit_pc = "call"
    /\ new_width = 0 /\ new_height = 0
    /\ canvas = << >>
    /\ resized = << >> /\ canvas_pixels = << >>

\* lines 146-157 (v2: 127-142): resize, new canvas, centre, paste, return
FitPastePixels ==
    /\ fit_pc = "scaled"
    /\ new_width >= 1 /\ new_height >= 1
    /\ resized' \in ResizedSprites(new_width, new_height)
    /\ canvas' = NewCanvas(target_width, target_height,
                           Centre(target_width, new_width),
                           Centre(target_height, new_height),
                           new_width, new_height)
    /\ canvas_pixels' = Paste(BlankCanvas(target_width, target_height),
                              resized', Centre(target_width, new_width),
                              Centre(target_height, new_height))
    /\ fit_pc' = "returned"
    /\ UNCHANGED <<fillVars, cropVars, singleVars, refillVars, maskVars,
                   sampleVars, driverVars, realphaVars, stageVars, fit_fn,
                   img_width, img_height, target_width, target_height,
                   padding, new_width, new_height>>

NextPaste ==
    \/ FitScale
    \/ FitResizeRaises
    \/ FitPastePixels

SpecPaste == InitPaste /\ [][NextPaste]_vars

----------------------------------------------------------------------------
(* get_background_color (extract_keyboards.py, extract_keyboards_v2.py)     *)

\* the far sample is at width - FarInset, height - FarInset
NearInset == 5
FarInsetV1 == 6
FarInsetV2 == 5
FarInset(v) == IF v = 1 THEN FarInsetV1 ELSE FarInsetV2

\* lines 25-30 (v2: 18-23): the four sampled coordinates, in source order
Corners(v, w, h) ==
    << <<NearInset, NearInset>>, <<w - FarInset(v), NearInset>>,
       <<NearInset, h - FarInset(v)>>, <<w - FarInset(v), h - FarInset(v)>> >>

\* pixels[x, y] / img.getpixel((x, y)): a negative index counts from the far
\* edge; the coordinate read
Wrapped(c, w, h) ==
    <<IF c[1] < 0 THEN w + c[1] ELSE c[1], IF c[2] < 0 THEN h + c[2] ELSE c[2]>>

\* a read outside the image raises IndexError
SamplesInside(v, img) ==
    \A i \in 1 .. 4 :
        InBounds(Wrapped(Corners(v, img.width, img.height)[i], img.width,
                         img.height), img.width, img.height)

\* the list corners
Samples(v, img) ==
    [i \in 1 .. 4 |->
        img.pixels[Wrapped(Corners(v, img.width, img.height)[i], img.width,
                           img.height)]]

ChannelMeanCeil(cs, k) == (cs[1][k] + cs[2][k] + cs[3][k] + cs[4][k] + 3) \div 4
\* lines 33-35 (v2: 25-27): sum(c[k] for c in corners) // 4
ChannelMean(cs, k) == (cs[1][k] + cs[2][k] + cs[3][k] + cs[4][k]) \div 4

get_background_color_centre(v, img) ==
    img.pixels[<<img.width \div 2, img.height \div 2>>]
\* lines 19-37 (v2: 15-28)
get_background_color(v, img) ==
    LET cs == Samples(v, img)
    IN  <<ChannelMean(cs, 1), ChannelMean(cs, 2), ChannelMean(cs, 3)>>

MaxSample == 11

\* the sizes of the sampled images: two of at least 10, and one too small
\* for the sample at (5, 5)
SampleSizes == {NearInset} \cup ((MaxSample - 1) .. MaxSample)

\* images whose four quadrants are white or black, with one pixel of a
\* third colour
SampleImages(w, h) ==
    {[width |-> w, height |-> h,
      pixels |-> [c \in Coords(w, h) |->
                     IF c = c1 THEN other
                     ELSE q[(IF 2 * c[1] < w THEN 1 ELSE 2)
                            + (IF 2 * c[2] < h THEN 0 ELSE 2)]]] :
        <<q, other, c1>> \in
            [1 .. 4 -> {White, Black}] \X {Near, Mid} \X Coords(w, h)}

InitSample ==
    /\ FillIdle
    /\ FitIdle
    /\ CropIdle
    /\ ExtraIdle("sample")
    /\ sample_variant \in {1, 2}
    /\ \E w \in SampleSizes, h \in SampleSizes : sample_img \in SampleImages(w, h)
    /\ sample_pc = "call"
    /\ sample_result = << >>

\* lines 26-29 (v2: 19-22): a sample outside the image raises IndexError
SampleRaise ==
    /\ sample_pc = "call"
    /\ ~SamplesInside(sample_variant, sample_img)
    /\ sample_pc' = "raised"
    /\ UNCHANGED <<fillVars, fitVars, cropVars, singleVars, refillVars, maskVars,
                   driverVars, laterVars, sample_variant, sample_img, sample_result>>

\* lines 21-37 (v2: 17-28)
SampleReturn ==
    /\ sample_pc = "call"
    /\ SamplesInside(sample_variant, sample_img)
    /\ sample_result' = get_background_color(sample_variant, sample_img)
    /\ sample_pc' = "returned"
    /\ UNCHANGED <<fillVars, fitVars, cropVars, singleVars, refillVars, maskVars,
                   driverVars, laterVars, sample_variant, sample_img>>

NextSample ==
    \/ SampleRaise
    \/ SampleReturn

SpecSample == InitSample /\ [][NextSample]_vars

----------------------------------------------------------------------------
(* flood_fill_background as a function of its arguments: the loop of Spec   *)
(* run to its end                                                           *)

\* one iteration of the while loop for the dequeued coordinate c; st holds
\* the visited flags, the mask, and the coordinates appended to the queue
\* behind those that were in it when the current pass began
FillStep(v, w, h, px, bg, tol, st, c) ==
    IF ~InBounds(c, w, h) THEN st
    ELSE IF st.visited[c] THEN st
    ELSE LET vis == [st.visited EXCEPT ![c] = TRUE]
         IN  IF ~WithinTolerance(px[c], bg, tol)
             THEN [st EXCEPT !.visited = vis]
             ELSE [visited |-> vis,
                   alpha |-> [st.alpha EXCEPT ![c] = 0],
                   next |-> st.next \o
                       Appended(v, c, w, h,
                           {n \in {<<c[1] + d[1], c[2] + d[2]>> :
                                      d \in (-1 .. 1) \X (-1 .. 1)} :
                               InBounds(n, w, h) /\ vis[n]})]

\* the iterations for batch[lo], ..., batch[hi], in this order (DOMAIN left
\* is never empty: the test has left evaluated before the second half)
RECURSIVE FillBatch(_, _, _, _, _, _, _, _, _, _)
FillBatch(v, w, h, px, bg, tol, st, batch, lo, hi) ==
    IF lo > hi THEN st
    ELSE IF lo = hi THEN FillStep(v, w, h, px, bg, tol, st, batch[lo])
    ELSE LET mid == (lo + hi) \div 2
             left == FillBatch(v, w, h, px, bg, tol, st, batch, lo, mid)
         IN  IF DOMAIN left = {} THEN left
             ELSE FillBatch(v, w, h, px, bg, tol, left, batch, mid + 1, hi)

\* while queue: the coordinates in the queue are taken from its front, those
\* appended meanwhile follow them
RECURSIVE FillLoop(_, _, _, _, _, _, _)
FillLoop(v, w, h, px, bg, tol, st) ==
    IF st.next = << >> THEN st.alpha
    ELSE LET after == FillBatch(v, w, h, px, bg, tol,
                                [st EXCEPT !.next = << >>],
                                st.next, 1, Len(st.next))
         IN  IF DOMAIN after = {} THEN after.alpha
             ELSE FillLoop(v, w, h, px, bg, tol, after)

\* lines 45-92 (v2: 35-84)
flood_fill_background(v, w, h, px, bg, tol) ==
    FillLoop(v, w, h, px, bg, tol,
             [visited |-> [c \in Coords(w, h) |-> FALSE],
              alpha |-> [c \in Coords(w, h) |-> 255],
              next |-> SeedQueue(w, h)])

----------------------------------------------------------------------------
(* flood_fill_background on an RGBA region, and on the region that has the  *)
(* same R, G and B at every coordinate and other alpha values               *)

\* alpha values of the pixel at one coordinate and of the pixels elsewhere
AlphaPairs == {<<0, 255>>, <<128, 0>>, <<255, 128>>}

\* the region px of <<r, g, b>> with an alpha channel: a at the coordinate d
WithAlpha(px, d, a) ==
    [c \in DOMAIN px |->
        <<px[c][1], px[c][2], px[c][3], IF c = d THEN a[1] ELSE a[2]>>]

InitRealpha ==
    /\ variant \in {1, 2}
    /\ width \in 1 .. MaxW
    /\ height \in 1 .. MaxH
    /\ \E px \in MidRegions(width, height) :
          pixels = WithAlpha(px, <<0, 0>>, <<255, 255>>)
    /\ bg_color \in BgColors
    /\ tolerance \in {5, 10}
    /\ pc = "call"
    /\ queue = << >>
    /\ visited = {}
    /\ alpha = << >>
    /\ classified = << >>
    /\ FitIdle
    /\ CropIdle
    /\ ExtraIdle("realpha")
    /\ other_pixels = << >> /\ other_alpha = << >>

\* the call has returned; flood_fill_background is called with the same
\* background colour and tolerance on the region with other alpha values
Realpha ==
    /\ pc = "done"
    /\ \E d \in Coords(width, height), a \in AlphaPairs :
          other_pixels' = WithAlpha(pixels, d, a)
    /\ other_alpha' = flood_fill_background(variant, width, height,
                                            other_pixels', bg_color, tolerance)
    /\ pc' = "compared"
    /\ UNCHANGED <<fitVars, cropVars, singleVars, refillVars, maskVars,
                   sampleVars, driverVars, stageVars, pasteVars, variant, width,
                   height,
                   pixels, bg_color, tolerance, queue, visited, alpha,
                   classified>>

NextRealpha ==
    \/ Seed
    \/ SkipOutOfBounds
    \/ SkipVisited
    \/ VisitBackground
    \/ VisitForeground
    \/ Return
    \/ Realpha

SpecRealpha == InitRealpha /\ [][NextRealpha]_vars

----------------------------------------------------------------------------
(* apply_alpha_mask (extract_keyboards.py, extract_keyboards_v2.py)         *)
(*                                                                         *)
(* An image is [width, height, pixels]; its pixels are <<r, g, b>> in mode *)
(* RGB and <<r, g, b, a>> in mode RGBA.  A mask is [width, height, values].*)

\* the mask flood_fill_background returns for a w x h image
MaskOf(w, h, values) == [width |-> w, height |-> h, values |-> values]

\* variant 1, line 107: alpha[y][x] raises IndexError for a coordinate of the
\* image that is outside the mask; variant 2, line 91: putalpha raises
\* ValueError ("images do not match") unless the sizes are equal
MaskRaises(v, img, mask) ==
    IF v = 1
    THEN \E c \in Coords(img.width, img.height) :
             ~InBounds(c, mask.width, mask.height)
    ELSE img.width # mask.width \/ img.height # mask.height

apply_alpha_mask_inverted(v, img, mask) ==
    [width |-> img.width, height |-> img.height,
     pixels |-> [c \in Coords(img.width, img.height) |->
                    <<img.pixels[c][1], img.pixels[c][2], img.pixels[c][3],
                      255 - mask.values[c]>>]]
\* lines 95-110: r, g, b = pixels[x, y][:3]; a = alpha[y][x]
\* (v2: 86-92: convert('RGB'), copy, putalpha(alpha))
apply_alpha_mask(v, img, mask) ==
    [width |-> img.width, height |-> img.height,
     pixels |-> [c \in Coords(img.width, img.height) |->
                    <<img.pixels[c][1], img.pixels[c][2], img.pixels[c][3],
                      mask.values[c]>>]]

MaxMaskW == 2
MaxMaskH == 2

\* RGB and RGBA images of one base value in which one pixel has another
MaskImages(w, h) ==
    {[width |-> w, height |-> h,
      pixels |-> [c \in Coords(w, h) |-> IF c = c1 THEN other ELSE base]] :
        <<base, other, c1>> \in
            ({White, Black} \X {White, Black} \X Coords(w, h))
            \cup (RGBAPalette \X RGBAPalette \X Coords(w, h))}

\* masks of one base value in which one entry has the other
Masks(w, h) ==
    {MaskOf(w, h, [c \in Coords(w, h) |-> IF c = c1 THEN other ELSE base]) :
        <<base, other, c1>> \in {0, 255} \X {0, 255} \X Coords(w, h)}

InitMask ==
    /\ FillIdle
    /\ FitIdle
    /\ CropIdle
    /\ ExtraIdle("mask")
    /\ mask_variant \in {1, 2}
    /\ \E w \in 1 .. MaxMaskW, h \in 1 .. MaxMaskH : mask_img \in MaskImages(w, h)
    /\ \E w \in 1 .. MaxMaskW, h \in 1 .. MaxMaskH : mask_alpha \in Masks(w, h)
    /\ mask_pc = "call"
    /\ mask_result = << >>

\* line 107 (v2: 91): the call raises, nothing is returned
MaskRaise ==
    /\ mask_pc = "call"
    /\ MaskRaises(mask_variant, mask_img, mask_alpha)
    /\ mask_pc' = "raised"
    /\ UNCHANGED <<fillVars, fitVars, cropVars, singleVars, refillVars,
                   sampleVars, driverVars, laterVars, mask_variant, mask_img, mask_alpha, mask_result>>

\* lines 97-110 (v2: 88-92)
MaskReturn ==
    /\ mask_pc = "call"
    /\ ~MaskRaises(mask_variant, mask_img, mask_alpha)
    /\ mask_result' = apply_alpha_mask(mask_variant, mask_img, mask_alpha)
    /\ mask_pc' = "returned"
    /\ UNCHANGED <<fillVars, fitVars, cropVars, singleVars, refillVars,
                   sampleVars, driverVars, laterVars, mask_variant, mask_img, mask_alpha>>

NextMask ==
    \/ MaskRaise
    \/ MaskReturn

SpecMask == InitMask /\ [][NextMask]_vars

----------------------------------------------------------------------------
(* process_single_keyboard (extract_keyboards.py) with                      *)
(* extract_keyboard_with_transparency: sample, fill, mask, crop, fit        *)

MaxSingle == 11
CropPaddingDefault == 2

\* a white n x n image holding a square of one colour, from (lo, lo) to
\* (hi, hi), the latter exclusive
SquareImage(n, lo, hi, colour) ==
    [width |-> n, height |-> n,
     pixels |-> [c \in Coords(n, n) |->
                    IF c[1] >= lo /\ c[1] < hi /\ c[2] >= lo /\ c[2] < hi
                    THEN colour ELSE White]]

\* the 100 x 100 image with the 40 x 40 black square, tolerance 10, a
\* 200 x 200 canvas with padding 10
Scenario ==
    [img |-> SquareImage(100, 30, 70, Black), tolerance |-> 10,
     fit |-> <<200, 200, 10>>]

\* <<target_width, target_height, padding>>: the call of the source, the
\* scenario's, and a canvas its padding fills
SingleFits ==
    {<<TARGET_WIDTH, TARGET_HEIGHT, PaddingV1>>, Scenario.fit,
     <<2 * MaxPadding, 2 * MaxPadding, MaxPadding>>}

SingleCalls ==
    {Scenario}
    \cup UNION {UNION {{[img |-> SquareImage(n, lo, hi, colour),
                         tolerance |-> tol, fit |-> f] :
                           <<colour, tol, f>> \in
                               {Black, Mid} \X {5, 10} \X SingleFits} :
                        hi \in (lo + 1) .. n} :
                  <<n, lo>> \in {nl \in ((MaxSingle - 1) .. MaxSingle)
                                           \X (0 .. MaxSingle - 1) :
                                    nl[2] < nl[1]}}

InitSingle ==
    /\ FillIdle
    /\ FitIdle
    /\ CropIdle
    /\ ExtraIdle("single")
    /\ \E call \in SingleCalls :
          /\ single_img = call.img
          /\ single_tolerance = call.tolerance
          /\ single_fit = call.fit
    /\ single_pc = "call"
    /\ single_bg = << >> /\ single_alpha = << >>

\* line 275: bg_color = get_background_color(img)
SingleSample ==
    /\ single_pc = "call"
    /\ SamplesInside(1, single_img)
    /\ single_bg' = get_background_color(1, single_img)
    /\ single_pc' = "sampled"
    /\ UNCHANGED <<fillVars, fitVars, cropVars, refillVars, maskVars, sampleVars,
                   driverVars, laterVars,
                   single_img,
                   single_tolerance,
                   single_fit, single_alpha>>

\* lines 279, 163: alpha = flood_fill_background(img, bg_color, tolerance)
SingleFill ==
    /\ single_pc = "sampled"
    /\ single_alpha' =
          MaskOf(single_img.width, single_img.height,
                 flood_fill_background(1, single_img.width, single_img.height,
                                       single_img.pixels, single_bg,
                                       single_tolerance))
    /\ single_pc' = "filled"
    /\ UNCHANGED <<fillVars, fitVars, cropVars, refillVars, maskVars, sampleVars,
                   driverVars, laterVars,
                   single_img,
                   single_tolerance,
                   single_fit, single_bg>>

\* lines 166-169: result = apply_alpha_mask(img, alpha), and crop_to_content
\* is called on it with the default padding
SingleMask ==
    /\ single_pc = "filled"
    /\ ~MaskRaises(1, single_img, single_alpha)
    /\ crop_pc' = "call"
    /\ crop_img' = apply_alpha_mask(1, single_img, single_alpha)
    /\ crop_padding' = CropPaddingDefault
    /\ crop_calls' = 1
    /\ single_pc' = "cropping"
    /\ UNCHANGED <<fillVars, fitVars, refillVars, maskVars, sampleVars,
                   driverVars, laterVars, bbox,
                   crop_box, crop_result, crop_first, single_img, single_tolerance, single_fit, single_bg,
                   single_alpha>>

\* line 282: fit_to_canvas is called with the image crop_to_content returned
SingleFit ==
    /\ single_pc = "cropping"
    /\ crop_pc = "returned"
    /\ fit_fn' = "fit_to_canvas"
    /\ img_width' = crop_result.width
    /\ img_height' = crop_result.height
    /\ target_width' = single_fit[1]
    /\ target_height' = single_fit[2]
    /\ padding' = single_fit[3]
    /\ fit_pc' = "call"
    /\ single_pc' = "fitting"
    /\ UNCHANGED <<fillVars, cropVars, refillVars, maskVars, sampleVars,
                   driverVars, laterVars,
                   new_width, new_height, canvas, single_img, single_tolerance, single_fit, single_bg,
                   single_alpha>>

NextSingle ==
    \/ SingleSample
    \/ SingleFill
    \/ SingleMask
    \/ CropGetBBox
    \/ CropEmpty
    \/ CropBox
    \/ SingleFit
    \/ FitScale
    \/ FitResizeRaises
    \/ FitPaste

SpecSingle == InitSingle /\ [][NextSingle]_vars

----------------------------------------------------------------------------
(* process_contact_sheet (extract_keyboards.py, lines 174-261) and main     *)
(* with extract_keyboard (extract_keyboards_v2.py, lines 144-224)           *)

\* the largest cell side of the sheets of the check
MaxCell == 7

\* tolerance=30 of the call of process_contact_sheet
ToleranceV1 == 30

\* tolerance=12 of the calls of extract_keyboard
ToleranceV2 == 12

DriverTolerance(v) == IF v = 1 THEN ToleranceV1 ELSE ToleranceV2

DriverPadding(v) == IF v = 1 THEN PaddingV1 ELSE PaddingV2

\* the name a cell is saved under: its key in keyboard_config / keyboards
CellName(cell) == <<cell.row, cell.col>>

\* lines 239-242 / lines 146-161 of extract_keyboards_v2.py: the rectangle
\* <<x1, y1, x2, y2>> of a cell after its margins (top, right, bottom, left)
CellRect(w, h, g, cell) ==
    LET cell_width  == w \div g[2]
        cell_height == h \div g[1]
    IN  <<cell.col * cell_width + cell.margins[4],
          cell.row * cell_height + cell.margins[1],
          (cell.col + 1) * cell_width - cell.margins[2],
          (cell.row + 1) * cell_height - cell.margins[3]>>

\* Image.crop of an RGB image: the pixels outside the image are black
CropRGB(img, box) ==
    [width |-> box[3] - box[1], height |-> box[4] - box[2],
     pixels |-> [c \in Coords(box[3] - box[1], box[4] - box[2]) |->
                    LET s == <<c[1] + box[1], c[2] + box[2]>>
                    IN  IF InBounds(s, img.width, img.height)
                        THEN img.pixels[s] ELSE Black]]

\* crop_to_content as a function of its arguments
crop_to_content(img, p) ==
    LET b == GetBBox(img)
    IN  IF b = None THEN img
        ELSE Crop(img, PadBox(b, p, img.width, img.height))

\* fit_to_canvas raises: the division by a zero size, or resize to a size
\* below 1
FitRaises(w, h, tw, th, p) ==
    IF w = 0 \/ h = 0 THEN TRUE
    ELSE \/ Scaled(w, Available(tw, p), Available(th, p), w, h) < 1
         \/ Scaled(h, Available(tw, p), Available(th, p), w, h) < 1

\* fit_to_canvas as a function of the sizes
fit_to_canvas(w, h, tw, th, p) ==
    LET nw == Scaled(w, Available(tw, p), Available(th, p), w, h)
        nh == Scaled(h, Available(tw, p), Available(th, p), w, h)
    IN  NewCanvas(tw, th, Centre(tw, nw), Centre(th, nh), nw, nh)

\* the background colour a cell is filled against: the sheet's in
\* process_contact_sheet, the cell's own in extract_keyboard
CellBg(v, cimg, bg) == IF v = 1 THEN bg ELSE get_background_color(2, cimg)

\* the image handed to fit_to_canvas: extract_keyboard_with_transparency
\* (lines 160-171), or lines 173-177 of extract_keyboards_v2.py: flood fill,
\* mask and crop_to_content with padding 2
CellContent(v, cimg, bg, tol) ==
    crop_to_content(
        apply_alpha_mask(v, cimg,
            MaskOf(cimg.width, cimg.height,
                   flood_fill_background(v, cimg.width, cimg.height,
                       cimg.pixels, CellBg(v, cimg, bg), tol))),
        CropPaddingDefault)

\* an exception leaves the processing of the cell
CellRaises(v, sh, g, cell, bg, tol) ==
    LET r == CellRect(sh.width, sh.height, g, cell)
    IN  IF r[3] - r[1] <= 0 \/ r[4] - r[2] <= 0 THEN TRUE
        ELSE LET cimg == CropRGB(sh, r)
             IN  IF v = 2 /\ ~SamplesInside(2, cimg) THEN TRUE
                 ELSE LET content == CellContent(v, cimg, bg, tol)
                      IN  FitRaises(content.width, content.height,
                                    TARGET_WIDTH, TARGET_HEIGHT,
                                    DriverPadding(v))

\* the file saved for a cell: the canvas and the content scaled onto it
Sprite(v, sh, g, cell, bg, tol) ==
    LET content == CellContent(v, CropRGB(sh, CellRect(sh.width, sh.height,
                                                       g, cell)), bg, tol)
    IN  [content |-> content,
         canvas |-> fit_to_canvas(content.width, content.height, TARGET_WIDTH,
                                  TARGET_HEIGHT, DriverPadding(v))]

Grids == {<<1, 2>>, <<2, 1>>}

SheetSizes(g) ==
    {<<g[2] * (MaxCell - 1) + e, g[1] * (MaxCell - 1)>> : e \in {0, 1}}

\* where the sheets of the check have a black pixel
KeySpots(w, h) == {<<0, 0>>, <<2, 2>>, <<w - 3, h - 3>>}

Sheets(w, h) ==
    {[width |-> w, height |-> h,
      pixels |-> [c \in Coords(w, h) |->
                     IF c \in {ks[1], ks[2]} THEN Black ELSE White]] :
        ks \in KeySpots(w, h) \X KeySpots(w, h)}

\* (top, right, bottom, left): none, one pixel, and margins that leave no
\* width
CellMargins ==
    {<<0, 0, 0, 0>>, <<1, 1, 1, 1>>, <<0, MaxCell \div 2, 0, MaxCell \div 2>>}

\* lines 226-227: for row in range(rows): for col in range(cols)
RowMajor(g) ==
    [i \in 1 .. g[1] * g[2] |-> <<(i - 1) \div g[2], (i - 1) % g[2]>>]

\* keyboard_config of process_contact_sheet: skip stands for a cell without
\* an entry or with a name in skip_names
CellsV1(g) ==
    {[i \in 1 .. g[1] * g[2] |->
         [row |-> RowMajor(g)[i][1], col |-> RowMajor(g)[i][2],
          margins |-> ms[i], skip |-> sk[i]]] :
       <<ms, sk>> \in [1 .. g[1] * g[2] -> CellMargins]
                          \X [1 .. g[1] * g[2] -> BOOLEAN]}

\* keyboards of main: two distinct keys in the order of the dictionary, a
\* key below the last row of the grid among them
CellsV2(g) ==
    {<<[row |-> k[1][1], col |-> k[1][2], margins |-> m, skip |-> FALSE],
       [row |-> k[2][1], col |-> k[2][2], margins |-> m, skip |-> FALSE]>> :
       <<k, m>> \in {kk \in {RowMajor(g)[1], RowMajor(g)[2], <<g[1], 0>>}
                              \X {RowMajor(g)[1], RowMajor(g)[2], <<g[1], 0>>} :
                        kk[1] # kk[2]} \X CellMargins}

InitDriver ==
    /\ FillIdle
    /\ FitIdle
    /\ CropIdle
    /\ ExtraIdle("driver")
    /\ drv_variant \in {1, 2}
    /\ grid \in Grids
    /\ \E size \in SheetSizes(grid) : sheet \in Sheets(size[1], size[2])
    /\ cells \in (IF drv_variant = 1 THEN CellsV1(grid) ELSE CellsV2(grid))
    /\ drv_pc = "call"
    /\ drv_bg = << >>
    /\ drv_i = 0
    /\ saved = << >>
    /\ extracted = << >>

\* lines 180-225: the sheet's background colour is sampled once; main of
\* extract_keyboards_v2.py (lines 195-219) samples nothing
DriverBegin ==
    /\ drv_pc = "call"
    /\ drv_bg' = (IF drv_variant = 1 THEN get_background_color(1, sheet)
                                     ELSE << >>)
    /\ drv_i' = 1
    /\ drv_pc' = "loop"
    /\ UNCHANGED <<fillVars, fitVars, cropVars, singleVars, refillVars,
                   maskVars, sampleVars, laterVars, drv_variant, sheet, grid, cells,
                   saved, extracted>>

\* lines 228-234: continue
DriverSkip ==
    /\ drv_pc = "loop"
    /\ drv_i <= Len(cells)
    /\ cells[drv_i].skip
    /\ drv_i' = drv_i + 1
    /\ UNCHANGED <<fillVars, fitVars, cropVars, singleVars, refillVars,
                   maskVars, sampleVars, laterVars, drv_variant, drv_pc, sheet, grid,
                   cells, drv_bg, saved, extracted>>

\* lines 236-259 / extract_keyboard: the cell is cropped, extracted, fitted
\* and saved
DriverCell ==
    /\ drv_pc = "loop"
    /\ drv_i <= Len(cells)
    /\ ~cells[drv_i].skip
    /\ ~CellRaises(drv_variant, sheet, grid, cells[drv_i], drv_bg,
                   DriverTolerance(drv_variant))
    /\ saved' = [k \in DOMAIN saved \cup {CellName(cells[drv_i])} |->
                    IF k = CellName(cells[drv_i])
                    THEN Sprite(drv_variant, sheet, grid, cells[drv_i],
                                drv_bg, DriverTolerance(drv_variant))
                    ELSE saved[k]]
    /\ extracted' = Append(extracted, CellName(cells[drv_i]))
    /\ drv_i' = drv_i + 1
    /\ UNCHANGED <<fillVars, fitVars, cropVars, singleVars, refillVars,
                   maskVars, sampleVars, laterVars, drv_variant, drv_pc, sheet, grid,
                   cells, drv_bg>>

\* no try/except around the cell: the exception leaves the driver
DriverCellRaises ==
    /\ drv_pc = "loop"
    /\ drv_i <= Len(cells)
    /\ ~cells[drv_i].skip
    /\ CellRaises(drv_variant, sheet, grid, cells[drv_i], drv_bg,
                  DriverTolerance(drv_variant))
    /\ drv_pc' = "raised"
    /\ UNCHANGED <<fillVars, fitVars, cropVars, singleVars, refillVars,
                   maskVars, sampleVars, laterVars, drv_variant, sheet, grid, cells,
                   drv_bg, drv_i, saved, extracted>>

\* line 261: return extracted
DriverReturn ==
    /\ drv_pc = "loop"
    /\ drv_i > Len(cells)
    /\ drv_pc' = "done"
    /\ UNCHANGED <<fillVars, fitVars, cropVars, singleVars, refillVars,
                   maskVars, sampleVars, laterVars, drv_variant, sheet, grid, cells,
                   drv_bg, drv_i, saved, extracted>>

NextDriver ==
    \/ DriverBegin
    \/ DriverSkip
    \/ DriverCell
    \/ DriverCellRaises
    \/ DriverReturn

SpecDriver == InitDriver /\ [][NextDriver]_vars

----------------------------------------------------------------------------
(* The drivers, one stage of a cell per step: the body of the loop of       *)
(* process_contact_sheet (lines 236-259) with                               *)
(* extract_keyboard_with_transparency (lines 160-171), and extract_keyboard *)
(* (extract_keyboards_v2.py, lines 144-188)                                 *)

\* the rectangle Image.crop takes: a right edge left of the left edge, or a
\* bottom edge above the top edge, gives an image without pixels where crop
\* does not raise
Clamped(r) == <<r[1], r[2], Max(r[1], r[3]), Max(r[2], r[4])>>

Inverted(r) == r[3] < r[1] \/ r[4] < r[2]

CurrentRect == CellRect(sheet.width, sheet.height, grid, cells[drv_i])

\* the stage after which flood_fill_background runs
BeforeFill(v) == IF v = 1 THEN "cropped" ELSE "sampled"

InitStages ==
    /\ FillIdle
    /\ FitIdle
    /\ CropIdle
    /\ ExtraIdle("stages")
    /\ drv_variant \in {1, 2}
    /\ grid \in Grids
    /\ \E size \in SheetSizes(grid) : sheet \in Sheets(size[1], size[2])
    /\ cells \in (IF drv_variant = 1 THEN CellsV1(grid) ELSE CellsV2(grid))
    /\ drv_pc = "call"
    /\ drv_bg = << >>
    /\ drv_i = 0
    /\ saved = << >>
    /\ extracted = << >>
    /\ stage = "none"
    /\ cell_img = << >> /\ cell_bg = << >> /\ cell_alpha = << >>
    /\ cell_rgba = << >> /\ cell_content = << >> /\ cell_canvas = << >>

\* line 247 (v2: 167): cell = img.crop((x1, y1, x2, y2))
StageCrop ==
    /\ drv_pc = "loop"
    /\ drv_i <= Len(cells)
    /\ ~cells[drv_i].skip
    /\ cell_img' = CropRGB(sheet, Clamped(CurrentRect))
    /\ cell_bg' = drv_bg
    /\ drv_pc' = "cell"
    /\ stage' = "cropped"
    /\ UNCHANGED <<fillVars, fitVars, cropVars, singleVars, refillVars,
                   maskVars, sampleVars, realphaVars, pasteVars, drv_variant, sheet,
                   grid, cells, drv_bg, drv_i, saved, extracted, cell_alpha,
                   cell_rgba, cell_content, cell_canvas>>

\* line 170 of extract_keyboards_v2.py: bg_color = get_background_color(cell)
StageSample ==
    /\ drv_pc = "cell"
    /\ stage = "cropped"
    /\ drv_variant = 2
    /\ SamplesInside(2, cell_img)
    /\ cell_bg' = get_background_color(2, cell_img)
    /\ stage' = "sampled"
    /\ UNCHANGED <<fillVars, fitVars, cropVars, singleVars, refillVars,
                   maskVars, sampleVars, realphaVars, pasteVars, driverVars, cell_img,
                   cell_alpha, cell_rgba, cell_content, cell_canvas>>

\* line 163 (v2: 173): alpha = flood_fill_background(...)
StageFill ==
    /\ drv_pc = "cell"
    /\ stage = BeforeFill(drv_variant)
    /\ cell_alpha' =
          MaskOf(cell_img.width, cell_img.height,
                 flood_fill_background(drv_variant, cell_img.width,
                     cell_img.height, cell_img.pixels, cell_bg,
                     DriverTolerance(drv_variant)))
    /\ stage' = "filled"
    /\ UNCHANGED <<fillVars, fitVars, cropVars, singleVars, refillVars,
                   maskVars, sampleVars, realphaVars, pasteVars, driverVars, cell_img,
                   cell_bg, cell_rgba, cell_content, cell_canvas>>

\* the mask written into the image it is applied to
StageMaskInPlace ==
    /\ drv_pc = "cell"
    /\ stage = "filled"
    /\ cell_rgba' = apply_alpha_mask(drv_variant, cell_img, cell_alpha)
    /\ cell_img' = cell_rgba'
    /\ stage' = "masked"
    /\ UNCHANGED <<fillVars, fitVars, cropVars, singleVars, refillVars,
                   maskVars, sampleVars, realphaVars, pasteVars, driverVars,
                   cell_bg, cell_alpha, cell_content, cell_canvas>>

\* line 166 (v2: 174): apply_alpha_mask(img, alpha) builds a new image
StageMask ==
    /\ drv_pc = "cell"
    /\ stage = "filled"
    /\ cell_rgba' = apply_alpha_mask(drv_variant, cell_img, cell_alpha)
    /\ stage' = "masked"
    /\ UNCHANGED <<fillVars, fitVars, cropVars, singleVars, refillVars,
                   maskVars, sampleVars, realphaVars, pasteVars, driverVars, cell_img,
                   cell_bg, cell_alpha, cell_content, cell_canvas>>

\* line 169 (v2: 177): crop_to_content with padding 2
StageContent ==
    /\ drv_pc = "cell"
    /\ stage = "masked"
    /\ cell_content' = crop_to_content(cell_rgba, CropPaddingDefault)
    /\ stage' = "content"
    /\ UNCHANGED <<fillVars, fitVars, cropVars, singleVars, refillVars,
                   maskVars, sampleVars, realphaVars, pasteVars, driverVars, cell_img,
                   cell_bg, cell_alpha, cell_rgba, cell_canvas>>

\* line 253 (v2: 181): fit_to_canvas
StageFit ==
    /\ drv_pc = "cell"
    /\ stage = "content"
    /\ ~FitRaises(cell_content.width, cell_content.height, TARGET_WIDTH,
                  TARGET_HEIGHT, DriverPadding(drv_variant))
    /\ cell_canvas' = fit_to_canvas(cell_content.width, cell_content.height,
                                    TARGET_WIDTH, TARGET_HEIGHT,
                                    DriverPadding(drv_variant))
    /\ stage' = "fitted"
    /\ UNCHANGED <<fillVars, fitVars, cropVars, singleVars, refillVars,
                   maskVars, sampleVars, realphaVars, pasteVars, driverVars, cell_img,
                   cell_bg, cell_alpha, cell_rgba, cell_content>>

\* the save placed before the call of fit_to_canvas
StageSaveUnfitted ==
    /\ drv_pc = "cell"
    /\ stage \in {"content", "fitted"}
    /\ saved' = [k \in DOMAIN saved \cup {CellName(cells[drv_i])} |->
                    IF k = CellName(cells[drv_i])
                    THEN [content |-> cell_content, canvas |-> cell_canvas]
                    ELSE saved[k]]
    /\ extracted' = Append(extracted, CellName(cells[drv_i]))
    /\ drv_i' = drv_i + 1
    /\ drv_pc' = "loop"
    /\ stage' = "none"
    /\ cell_img' = << >> /\ cell_bg' = << >> /\ cell_alpha' = << >>
    /\ cell_rgba' = << >> /\ cell_content' = << >> /\ cell_canvas' = << >>
    /\ UNCHANGED <<fillVars, fitVars, cropVars, singleVars, refillVars,
                   maskVars, sampleVars, realphaVars, pasteVars, drv_variant, sheet,
                   grid, cells, drv_bg>>

\* lines 256-259 (v2: 184-188): the canvas is saved and the loop goes on to
\* the next cell; the locals of the cell are dead
StageSave ==
    /\ drv_pc = "cell"
    /\ stage = "fitted"
    /\ saved' = [k \in DOMAIN saved \cup {CellName(cells[drv_i])} |->
                    IF k = CellName(cells[drv_i])
                    THEN [content |-> cell_content, canvas |-> cell_canvas]
                    ELSE saved[k]]
    /\ extracted' = Append(extracted, CellName(cells[drv_i]))
    /\ drv_i' = drv_i + 1
    /\ drv_pc' = "loop"
    /\ stage' = "none"
    /\ cell_img' = << >> /\ cell_bg' = << >> /\ cell_alpha' = << >>
    /\ cell_rgba' = << >> /\ cell_content' = << >> /\ cell_canvas' = << >>
    /\ UNCHANGED <<fillVars, fitVars, cropVars, singleVars, refillVars,
                   maskVars, sampleVars, realphaVars, pasteVars, drv_variant, sheet,
                   grid, cells, drv_bg>>

\* the stage the cell is at raises: crop for an inverted rectangle,
\* get_background_color of extract_keyboards_v2.py for a sample outside the
\* cell, fit_to_canvas for a size of zero
StageWouldRaise ==
    IF drv_pc = "loop"
    THEN drv_i <= Len(cells) /\ ~cells[drv_i].skip /\ Inverted(CurrentRect)
    ELSE IF drv_pc # "cell" THEN FALSE
    ELSE IF stage = "cropped"
         THEN drv_variant = 2 /\ ~SamplesInside(2, cell_img)
    ELSE IF stage = "content"
         THEN FitRaises(cell_content.width, cell_content.height,
                        TARGET_WIDTH, TARGET_HEIGHT,
                        DriverPadding(drv_variant))
    ELSE FALSE

\* no try/except around the stages: the exception leaves the driver
StageRaises ==
    /\ StageWouldRaise
    /\ drv_pc' = "raised"
    /\ UNCHANGED <<fillVars, fitVars, cropVars, singleVars, refillVars,
                   maskVars, sampleVars, realphaVars, pasteVars, drv_variant, sheet,
                   grid, cells, drv_bg, drv_i, saved, extracted, stageVars>>

NextStages ==
    \/ DriverBegin
    \/ DriverSkip
    \/ StageCrop
    \/ StageSample
    \/ StageFill
    \/ StageMask
    \/ StageContent
    \/ StageFit
    \/ StageSave
    \/ StageRaises
    \/ DriverReturn

SpecStages == InitStages /\ [][NextStages]_vars

----------------------------------------------------------------------------
(* Properties of flood_fill_background (checked under Spec) *)

Started == pc # "call"

Region == Coords(width, height)

\* the distance of the pixel at c to the background colour exceeds the
\* tolerance / is within the tolerance
BeyondTolerance(c) == ColorDistanceSq(pixels[c], bg_color) > Sq(tolerance)
AtTolerance(c) == ColorDistanceSq(pixels[c], bg_color) = Sq(tolerance)
Within(c) == ~BeyondTolerance(c)

Adjacent8(a, b) ==
    /\ a # b
    /\ a[1] - b[1] \in -1 .. 1
    /\ a[2] - b[2] \in -1 .. 1

Around(c) == {<<c[1] + dx, c[2] + dy>> : <<dx, dy>> \in (-1 .. 1) \X (-1 .. 1)}

RECURSIVE Closure(_, _)
Closure(S, frontier) ==
    LET new == {n \in UNION {Around(c) : c \in frontier} :
                   /\ n \notin S
                   /\ InBounds(n, width, height)
                   /\ Within(n)}
    IN  IF new = {} THEN S ELSE Closure(S \cup new, new)

\* the pixels joined to a border pixel by an 8-connected path of pixels
\* within tolerance (the border pixel included)
BorderConnected ==
    LET B == {c \in Region : IsBorder(c, width, height) /\ Within(c)}
    IN  Closure(B, B)

QueueSet == {queue[i] : i \in 1 .. Len(queue)}

\* the mask the loop of Spec ends with is the one the function computes
FillAgrees ==
    pc = "done" =>
        alpha = flood_fill_background(variant, width, height, pixels, bg_color,
                                      tolerance)

AllBorderForeground ==
    \A c \in Region : IsBorder(c, width, height) => BeyondTolerance(c)

\* C1: in every state of the fill and in the returned mask, no pixel whose
\* distance to the background colour is greater than the tolerance is marked
\* transparent (mask 0).
C1_NoForegroundTransparent ==
    Started => \A c \in Region : BeyondTolerance(c) => alpha[c] # 0

\* the fill has returned a mask with a transparent pixel next to a pixel
\* beyond tolerance, which it left opaque
C1_Witness ==
    /\ pc = "done"
    /\ \E c, d \in Region :
          /\ Adjacent8(c, d)
          /\ alpha[c] = 0
          /\ BeyondTolerance(d) /\ alpha[d] = 255

\* C2: when the fill returns, every pixel within tolerance that is joined to
\* a border pixel by an 8-connected path of pixels within tolerance is
\* transparent.
C2_ReachableBackgroundTransparent ==
    pc = "done" => \A c \in BorderConnected : alpha[c] = 0

\* the fill has returned, and an interior pixel whose only neighbours within
\* tolerance are diagonal ones (so that it is joined to the border by a
\* diagonal step only) is transparent
C2_Witness ==
    /\ pc = "done"
    /\ \E c \in BorderConnected :
          /\ ~IsBorder(c, width, height)
          /\ \A n \in Region :
                (Adjacent8(n, c) /\ Within(n)) => (n[1] # c[1] /\ n[2] # c[2])
          /\ alpha[c] = 0

\* C3: a non-border pixel within tolerance that no 8-connected path of
\* pixels within tolerance joins to the border is never enqueued, never
\* visited, and its mask entry stays 255.  Stated by contraposition: every
\* non-border pixel within tolerance that is in the queue, visited or not
\* 255 in the mask is joined to the border.
C3_EnclosedHoleUntouched ==
    Started =>
        LET qs == QueueSet
            touched == {c \in Region :
                           /\ ~IsBorder(c, width, height)
                           /\ Within(c)
                           /\ (c \in qs \/ c \in visited \/ alpha[c] # 255)}
        IN  touched # {} => touched \subseteq BorderConnected

\* the fill has returned on a region with an enclosed hole of background
\* colour, which is opaque in the mask
C3_Witness ==
    /\ pc = "done"
    /\ \E c \in Region :
          /\ ~IsBorder(c, width, height)
          /\ pixels[c] = bg_color
          /\ c \notin BorderConnected
          /\ alpha[c] = 255

\* C4: a visited pixel whose distance equals the tolerance is background:
\* it is transparent and each of its neighbours in the region has been
\* enqueued (it is in the queue, or already visited); a visited pixel whose
\* distance is greater than the tolerance is opaque.
C4_InclusiveThreshold ==
    Started =>
        LET qs == QueueSet
        IN  \A c \in visited :
                /\ AtTolerance(c) =>
                      /\ alpha[c] = 0
                      /\ \A n \in Around(c) \cap Region : n \in qs \/ n \in visited
                /\ BeyondTolerance(c) => alpha[c] = 255

\* a pixel at distance exactly 5 = tolerance has been visited and made
\* transparent with a neighbour waiting in the queue, and a pixel beyond
\* tolerance has been visited too
C4_Witness ==
    /\ pc = "loop"
    /\ tolerance > 0
    /\ \E c \in visited :
          /\ AtTolerance(c)
          /\ alpha[c] = 0
          /\ \E n \in Region : Adjacent8(n, c) /\ n \in QueueSet /\ n \notin visited
    /\ \E d \in visited : BeyondTolerance(d)

\* C5: when every border pixel is beyond tolerance, no pixel is ever marked
\* transparent, the fill is never stuck before it returns, and the returned
\* mask is all opaque.
C5_OpaqueBorderAllOpaque ==
    AllBorderForeground =>
        /\ Started => \A c \in Region : alpha[c] = 255
        /\ pc # "done" => ENABLED Next

\* the fill has returned on a region whose border is all beyond tolerance
\* and whose interior holds a pixel of the background colour
C5_Witness ==
    /\ pc = "done"
    /\ AllBorderForeground
    /\ \E c \in Region : Within(c)
    /\ \A c \in Region : alpha[c] = 255

----------------------------------------------------------------------------
(* Properties of fit_to_canvas / resize_to_standard (checked under SpecFit) *)

Abs(n) == IF n < 0 THEN 0 - n ELSE n

\* C6: a canvas returned by fit_to_canvas or resize_to_standard is exactly
\* target_width x target_height, whatever the aspect ratio of the input.
C6_CanvasIsTargetSize ==
    fit_pc = "returned" =>
        /\ canvas.width = target_width
        /\ canvas.height = target_height

\* a canvas has been returned for an input whose aspect ratio differs from
\* the target's, the sprite filling neither the width nor the height of a
\* canvas that is not square
C6_Witness ==
    /\ fit_pc = "returned"
    /\ img_width * target_height # img_height * target_width
    /\ target_width # target_height
    /\ new_width < target_width
    /\ new_height < target_height

\* C7: the scaled sprite is no larger than the available space, and the
\* rectangle it is pasted into lies inside the canvas, at least `padding`
\* pixels from every edge of the canvas.
C7_SpriteInsidePadding ==
    fit_pc = "returned" =>
        /\ new_width <= Available(target_width, padding)
        /\ new_height <= Available(target_height, padding)
        /\ canvas.box[1] >= padding
        /\ canvas.box[2] >= padding
        /\ canvas.box[3] <= canvas.width - padding
        /\ canvas.box[4] <= canvas.height - padding
        /\ canvas.box[3] - canvas.box[1] = new_width
        /\ canvas.box[4] - canvas.box[2] = new_height

\* fit_to_canvas has pasted, with a positive padding, a sprite that it
\* scaled and that reaches the padding at the top and at the bottom, not at
\* the left
C7_Witness ==
    /\ fit_pc = "returned"
    /\ fit_fn = "fit_to_canvas"
    /\ padding > 0
    /\ new_height # img_height
    /\ canvas.box[2] = padding
    /\ canvas.box[4] = canvas.height - padding
    /\ canvas.box[1] > padding

\* C8 (as claimed): for an input (w, h) placed at size (w', h'),
\* |w' * h - h' * w| < max(w, h).
C8_AspectWithinTruncation ==
    fit_pc = "returned" =>
        Abs(new_width * img_height - new_height * img_width)
            < Max(img_width, img_height)

----------------------------------------------------------------------------
(* Properties of crop_to_content (checked under SpecCrop) *)

NonTransparent(img) ==
    {c \in Coords(img.width, img.height) : img.pixels[c][4] # 0}

\* box is the tight bounding box of S: it contains S and S touches each of
\* its four sides
IsTightBox(box, S) ==
    /\ \A c \in S : box[1] <= c[1] /\ c[1] < box[3] /\ box[2] <= c[2] /\ c[2] < box[4]
    /\ \E c \in S : c[1] = box[1]
    /\ \E c \in S : c[1] = box[3] - 1
    /\ \E c \in S : c[2] = box[2]
    /\ \E c \in S : c[2] = box[4] - 1

\* C9: for a buffer with a non-transparent pixel, the result is the
\* sub-rectangle obtained from the tight bounding box of the pixels with
\* alpha # 0, expanded by the padding on all four sides and clamped to
\* [0, width] x [0, height]; it contains every non-transparent pixel and
\* does not extend outside the buffer.
C9_CropIsPaddedTightBox ==
    (crop_pc = "returned" /\ NonTransparent(crop_img) # {}) =>
        LET S == NonTransparent(crop_img)
            W == crop_img.width
            H == crop_img.height
            p == crop_padding
        IN  /\ \E t \in (0 .. W) \X (0 .. H) \X (0 .. W) \X (0 .. H) :
                  /\ IsTightBox(t, S)
                  /\ crop_box[1] = (IF t[1] - p < 0 THEN 0 ELSE t[1] - p)
                  /\ crop_box[2] = (IF t[2] - p < 0 THEN 0 ELSE t[2] - p)
                  /\ crop_box[3] = (IF t[3] + p > W THEN W ELSE t[3] + p)
                  /\ crop_box[4] = (IF t[4] + p > H THEN H ELSE t[4] + p)
            /\ crop_result.width = crop_box[3] - crop_box[1]
            /\ crop_result.height = crop_box[4] - crop_box[2]
            /\ DOMAIN crop_result.pixels
                  = Coords(crop_result.width, crop_result.height)
            /\ \A c \in DOMAIN crop_result.pixels :
                  /\ <<c[1] + crop_box[1], c[2] + crop_box[2]>>
                         \in Coords(W, H)
                  /\ crop_result.pixels[c]
                         = crop_img.pixels[<<c[1] + crop_box[1], c[2] + crop_box[2]>>]
            /\ \A c \in S :
                  crop_result.pixels[<<c[1] - crop_box[1], c[2] - crop_box[2]>>]
                      = crop_img.pixels[c]

\* a crop has returned where the padding was clamped at one side of the
\* buffer and applied in full at the opposite side, and where transparent
\* pixels were cut away
C9_Witness ==
    /\ crop_pc = "returned"
    /\ bbox # None
    /\ crop_padding > 0
    /\ bbox[1] - crop_padding < 0
    /\ bbox[3] + crop_padding <= crop_img.width
    /\ crop_result.width < crop_img.width
    /\ crop_result.width = bbox[3] + crop_padding

\* C10: for a buffer with no non-transparent pixel, crop_to_content returns
\* the buffer it was given, with the same size and the same pixels.
C10_EmptyReturnsOriginal ==
    (crop_pc = "returned" /\ NonTransparent(crop_img) = {}) =>
        /\ crop_result = crop_img
        /\ crop_result.width = crop_img.width
        /\ crop_result.height = crop_img.height

\* crop_to_content has returned for a fully transparent buffer larger than
\* the padding
C10_Witness ==
    /\ crop_pc = "returned"
    /\ NonTransparent(crop_img) = {}
    /\ crop_img.width > crop_padding
    /\ crop_img.height > crop_padding
    /\ crop_padding > 0
    /\ crop_result = crop_img

\* C11: crop_to_content with padding 0 is idempotent: when it is applied to
\* the image a first crop_to_content with padding 0 returned, the bounding
\* box it finds is the whole of that image (or there is none, as for the
\* first call, when the image is fully transparent), and it returns the
\* same image.
C11_CropIdempotent ==
    (crop_pc = "returned" /\ crop_calls = 2 /\ crop_padding = 0) =>
        /\ crop_img = crop_first
        /\ crop_result = crop_first
        /\ IF NonTransparent(crop_first) = {}
           THEN bbox = None
           ELSE /\ bbox = <<0, 0, crop_first.width, crop_first.height>>
                /\ crop_box = bbox

\* the second call has returned for an image that the first call, with
\* padding 0, had cut out of a larger buffer
C11_Witness ==
    /\ crop_pc = "returned"
    /\ crop_calls = 2
    /\ crop_padding = 0
    /\ bbox # None
    /\ crop_first.width > 1
    /\ crop_first.height > 1
    /\ \E c \in DOMAIN crop_first.pixels : crop_first.pixels[c][4] = 0
    /\ crop_result = crop_first

\* the scenario's call of process_single_keyboard
IsScenario ==
    /\ single_pc # "idle"
    /\ single_img.width = Scenario.img.width
    /\ single_img = Scenario.img
    /\ single_tolerance = Scenario.tolerance
    /\ single_fit = Scenario.fit

\* C12: for the 100 x 100 white image with the black square from (30, 30)
\* to (70, 70), tolerance 10: the sampled background is white; the mask is
\* 255 on the 40 x 40 square and 0 elsewhere; crop_to_content with padding 2
\* returns a 44 x 44 image; fit_to_canvas on 200 x 200 with padding 10
\* scales it to 180 x 180 and pastes it at (10, 10).
C12_EndToEndScenario ==
    IsScenario =>
        /\ single_pc # "call" => single_bg = White
        /\ single_pc \notin {"call", "sampled"} =>
              /\ single_alpha.width = 100 /\ single_alpha.height = 100
              /\ \A c \in Coords(100, 100) :
                    single_alpha.values[c] =
                        (IF c[1] >= 30 /\ c[1] < 70 /\ c[2] >= 30 /\ c[2] < 70
                         THEN 255 ELSE 0)
              /\ Cardinality({c \in Coords(100, 100) :
                                 single_alpha.values[c] = 255}) = 40 * 40
        /\ crop_pc = "returned" =>
              /\ crop_padding = 2
              /\ crop_result.width = 44 /\ crop_result.height = 44
        /\ fit_pc \in {"scaled", "returned"} =>
              new_width = 180 /\ new_height = 180
        /\ fit_pc # "raised"
        /\ fit_pc = "returned" =>
              /\ canvas.width = 200 /\ canvas.height = 200
              /\ canvas.box = <<10, 10, 190, 190>>

\* the scenario has run to its end
C12_Witness ==
    /\ IsScenario
    /\ single_pc = "fitting"
    /\ fit_pc = "returned"

\* C13: with background colour (255, 255, 255), a pixel of colour
\* (250, 250, 250) that the fill has reached is left opaque when the
\* tolerance is 5 and is made transparent when the tolerance is 10.
C13_ToleranceBoundary ==
    (pc \in {"loop", "done"} /\ bg_color = <<255, 255, 255>>) =>
        \A c \in visited :
            pixels[c] = <<250, 250, 250>> =>
                /\ tolerance = 5 => alpha[c] = 255
                /\ tolerance = 10 => alpha[c] = 0

\* both calls have returned: a pixel of colour (250, 250, 250) was reached
\* and left opaque with tolerance 5, and is reached and transparent with
\* tolerance 10
C13_Witness ==
    /\ pc = "done"
    /\ bg_color = <<255, 255, 255>>
    /\ tolerance = 10
    /\ \E c \in visited :
          /\ pixels[c] = <<250, 250, 250>>
          /\ c \in prev_visited
          /\ prev_alpha[c] = 255
          /\ alpha[c] = 0

\* the source image of apply_alpha_mask has an alpha channel
SourceHasAlpha == \A c \in DOMAIN mask_img.pixels : Len(mask_img.pixels[c]) = 4

SameSize(a, b) == a.width = b.width /\ a.height = b.height

\* C14: apply_alpha_mask returns an RGBA image of the width and height of
\* its input; at every coordinate the R, G and B values are those of the
\* input pixel, the alpha is 0 where the mask is 0 (background) and 255
\* where the mask is 255 (foreground).
C14_MaskApplied ==
    mask_pc = "returned" =>
        /\ SameSize(mask_result, mask_img)
        /\ DOMAIN mask_result.pixels = Coords(mask_img.width, mask_img.height)
        /\ \A c \in Coords(mask_img.width, mask_img.height) :
              /\ Len(mask_result.pixels[c]) = 4
              /\ \A k \in 1 .. 3 :
                    mask_result.pixels[c][k] = mask_img.pixels[c][k]
              /\ mask_alpha.values[c] = 0 => mask_result.pixels[c][4] = 0
              /\ mask_alpha.values[c] = 255 => mask_result.pixels[c][4] = 255

\* apply_alpha_mask has returned for an image of several pixels, two of
\* them of different colours, and a mask of its size with a background and
\* a foreground entry
C14_Witness ==
    /\ mask_pc = "returned"
    /\ SameSize(mask_img, mask_alpha)
    /\ \E c, d \in DOMAIN mask_img.pixels :
          /\ mask_img.pixels[c] # mask_img.pixels[d]
          /\ mask_alpha.values[c] = 0 /\ mask_result.pixels[c][4] = 0
          /\ mask_alpha.values[d] = 255 /\ mask_result.pixels[d][4] = 255

\* C15: when the source image already has an alpha channel, every pixel the
\* mask marks foreground keeps the alpha it had in the source, and only the
\* pixels the mask marks background have their alpha changed, to 0.
C15_ForegroundKeepsSourceAlpha ==
    (mask_pc = "returned" /\ SourceHasAlpha) =>
        \A c \in Coords(mask_img.width, mask_img.height) :
            /\ mask_alpha.values[c] = 255 =>
                  mask_result.pixels[c][4] = mask_img.pixels[c][4]
            /\ mask_alpha.values[c] = 0 => mask_result.pixels[c][4] = 0

\* C16: when the width or the height of the mask differs from that of the
\* image, apply_alpha_mask raises and returns no image.
C16_SizeMismatchRaises ==
    (mask_pc # "call" /\ ~SameSize(mask_img, mask_alpha)) =>
        /\ mask_pc = "raised"
        /\ mask_result = << >>

\* the coordinates at a 5-pixel inset from the far edge of an axis of the
\* given size: counted from the last pixel, as in extract_keyboards.py, or
\* from the size, as in extract_keyboards_v2.py
FarSide(size) == {size - 1 - 5, size - 5}

\* C17: for an image of at least 10 x 10 pixels get_background_color
\* returns; there are four coordinates inside the image, one at a 5-pixel
\* inset from the edges of each corner, such that each channel of the
\* result is the floor of the mean of that channel over the four pixels;
\* the result is c when the four pixels are all c, and each channel is
\* between the least and the greatest sampled value.
C17_FlooredCornerMean ==
    (sample_pc # "call" /\ sample_img.width >= 10 /\ sample_img.height >= 10) =>
        /\ sample_pc = "returned"
        /\ \E fx \in FarSide(sample_img.width), fy \in FarSide(sample_img.height) :
              LET tl == <<5, 5>>
                  tr == <<fx, 5>>
                  bl == <<5, fy>>
                  br == <<fx, fy>>
                  px == sample_img.pixels
                  S(k) == {px[tl][k], px[tr][k], px[bl][k], px[br][k]}
              IN  /\ {tl, tr, bl, br}
                        \subseteq Coords(sample_img.width, sample_img.height)
                  /\ \A k \in 1 .. 3 :
                        /\ 4 * sample_result[k]
                              <= px[tl][k] + px[tr][k] + px[bl][k] + px[br][k]
                        /\ 4 * (sample_result[k] + 1)
                              > px[tl][k] + px[tr][k] + px[bl][k] + px[br][k]
                        /\ \E lo, hi \in S(k) :
                              lo <= sample_result[k] /\ sample_result[k] <= hi
                  /\ (px[tl] = px[tr] /\ px[tr] = px[bl] /\ px[bl] = px[br])
                        => sample_result = px[tl]

\* get_background_color has returned, in each variant, a colour that no
\* sampled pixel has: the mean was floored
C17_Witness ==
    /\ sample_pc = "returned"
    /\ sample_img.width >= 10 /\ sample_img.height >= 10
    /\ \A c \in DOMAIN sample_img.pixels : sample_img.pixels[c] # sample_result
    /\ \E k \in 1 .. 3 : sample_result[k] \notin {0, 255, 252, 251, 250}
    /\ \E k \in 1 .. 3 :
          LET cs == Samples(sample_variant, sample_img)
          IN  (cs[1][k] + cs[2][k] + cs[3][k] + cs[4][k]) % 4 # 0

\* the rectangle of a cell lies outside the sheet, or has no width or no
\* height
BadRect(sh, g, cell) ==
    LET r == CellRect(sh.width, sh.height, g, cell)
    IN  \/ r[1] < 0 \/ r[2] < 0 \/ r[3] > sh.width \/ r[4] > sh.height
        \/ r[3] <= r[1] \/ r[4] <= r[2]

\* C18: a cell whose rectangle lies outside the image, or has zero or
\* negative width or height after its margins, is skipped: no output is
\* saved for it, and the driver does not halt at it, so the cells after it
\* are still processed.
C18_BadCellSkipped ==
    drv_pc \in {"loop", "done", "raised"} =>
        \A j \in 1 .. Len(cells) :
            (~cells[j].skip /\ BadRect(sheet, grid, cells[j])) =>
                /\ CellName(cells[j]) \notin DOMAIN saved
                /\ ~(drv_pc = "raised" /\ drv_i = j)

\* bg_color of a call of the driver: a function of the sheet
GlobalBg ==
    IF drv_variant = 1 THEN get_background_color(1, sheet) ELSE << >>

\* the sprite of a cell processed alone: from the sheet, the cell's spec and
\* the parameters of the call
SpriteAlone(cell) ==
    Sprite(drv_variant, sheet, grid, cell, GlobalBg,
           DriverTolerance(drv_variant))

\* every file saved is the sprite of its cell processed alone, and the files
\* saved are those of the cells the list extracted names
SavedIsSpriteAlone ==
    drv_pc \in {"loop", "done", "raised"} =>
        /\ \A j \in 1 .. Len(cells) :
              CellName(cells[j]) \in DOMAIN saved =>
                  saved[CellName(cells[j])] = SpriteAlone(cells[j])
        /\ DOMAIN saved = {extracted[k] : k \in 1 .. Len(extracted)}
        /\ DOMAIN saved \subseteq
              {CellName(cells[j]) : j \in 1 .. drv_i - 1}

\* C19: cell processing is independent and reorderable: when the driver has
\* ended, every cell it was given has the output of processing that cell
\* alone, whatever cells came before it and in whatever order: the sprite
\* alone where that exists, and no file where the cell alone raises.
C19_SameAsAlone ==
    drv_pc \in {"done", "raised"} =>
        \A j \in 1 .. Len(cells) :
            ~cells[j].skip =>
                IF CellRaises(drv_variant, sheet, grid, cells[j], GlobalBg,
                              DriverTolerance(drv_variant))
                THEN CellName(cells[j]) \notin DOMAIN saved
                ELSE /\ CellName(cells[j]) \in DOMAIN saved
                     /\ saved[CellName(cells[j])] = SpriteAlone(cells[j])

\* C20: in every state of the flood fill and in the returned mask, the mask
\* has exactly the width and the height of the region it is derived from,
\* and every entry of it is 0 or 255.
C20_MaskShapeAndValues ==
    pc \in {"loop", "done"} =>
        /\ DOMAIN alpha = Coords(width, height)
        /\ \A c \in DOMAIN alpha : alpha[c] \in {0, 255}

\* the fill of a region that is not square has returned a mask holding both
\* values
C20_Witness ==
    /\ pc = "done"
    /\ width # height
    /\ \E c, d \in Coords(width, height) : alpha[c] = 0 /\ alpha[d] = 255

\* the second call of flood_fill_background, with a tolerance that is not
\* lower, has returned
Refilled == pc = "done" /\ prev_alpha # << >>

\* C21: removal is monotone in the tolerance: for the same region and
\* background colour, every pixel the fill makes transparent with a
\* tolerance is also made transparent with any tolerance that is not lower.
C21_MonotoneInTolerance ==
    Refilled => \A c \in Coords(width, height) :
                    prev_alpha[c] = 0 => alpha[c] = 0

\* the second call has kept a transparent pixel of the first and has made
\* transparent a pixel the first left opaque
C21_Witness ==
    /\ Refilled
    /\ \E c, d \in Coords(width, height) :
          /\ prev_alpha[c] = 0 /\ alpha[c] = 0
          /\ prev_alpha[d] = 255 /\ alpha[d] = 0

\* C22: the flood fill ignores alpha: the region whose pixels have the same
\* R, G and B at every coordinate and other alpha values gets, for the same
\* background colour and tolerance, the same mask.
C22_AlphaIgnored ==
    pc = "compared" =>
        /\ \A c \in Coords(width, height) :
              /\ other_pixels[c][1] = pixels[c][1]
              /\ other_pixels[c][2] = pixels[c][2]
              /\ other_pixels[c][3] = pixels[c][3]
        /\ other_alpha = alpha

\* the two regions differ in alpha at every coordinate, and their mask has
\* a transparent and an opaque entry
C22_Witness ==
    /\ pc = "compared"
    /\ \A c \in Coords(width, height) : other_pixels[c][4] # pixels[c][4]
    /\ \E c, d \in Coords(width, height) :
          /\ other_alpha[c] = 0 /\ alpha[c] = 0
          /\ other_alpha[d] = 255 /\ alpha[d] = 255

\* C23: for every processed cell the stages run in a strict order, each
\* after the one before it has finished: crop of the cell, flood fill, mask,
\* crop to content, fit, save; a sprite is saved only once it is fitted to
\* the canvas, and a cell begins only when the cell before it has ended.
C23_StagesInOrder ==
    [][/\ (stage' # stage) =>
              CASE stage' = "cropped" -> stage = "none" /\ drv_pc = "loop"
                [] stage' = "sampled" -> stage = "cropped"
                [] stage' = "filled" -> stage = BeforeFill(drv_variant)
                [] stage' = "masked" -> stage = "filled"
                [] stage' = "content" -> stage = "masked"
                [] stage' = "fitted" -> stage = "content"
                [] stage' = "none" -> stage = "fitted"
       /\ (saved' # saved) =>
              /\ stage = "fitted"
              /\ saved'[CellName(cells[drv_i])].canvas = cell_canvas
              /\ cell_canvas # << >>
       /\ (drv_i' # drv_i) => (stage \in {"none", "fitted"} /\ stage' = "none")
      ]_vars

\* the loop has ended with two cells taken through every stage
C23_Witness ==
    /\ drv_pc = "done"
    /\ stage = "none"
    /\ Len(extracted) = 2

C24_Terminates ==
    /\ <>(pc = "done" /\ queue = << >>)
    /\ [](pc \in {"loop", "done"} =>
             \A c \in Coords(width, height) :
                 /\ classified[c] <= 1
                 /\ classified[c] = 1 <=> c \in visited)

\* a coordinate that is already classified is twice in the queue
C24_Witness ==
    /\ pc = "loop"
    /\ \E i, j \in 1 .. Len(queue) :
          /\ i < j
          /\ queue[i] = queue[j]
          /\ queue[i] \in visited
          /\ classified[queue[i]] = 1

\* C25: fit_to_canvas pastes the scaled sprite at
\* x = floor((target_width - new_width) / 2),
\* y = floor((target_height - new_height) / 2): the sprite is centred, the
\* left and right margins differing by at most one pixel and the top and
\* bottom margins differing by at most one pixel.
C25_Centred ==
    fit_pc = "returned" =>
        LET x == canvas.box[1]
            y == canvas.box[2]
            right == canvas.width - canvas.box[3]
            bottom == canvas.height - canvas.box[4]
        IN  /\ 2 * x <= target_width - new_width
            /\ target_width - new_width < 2 * x + 2
            /\ 2 * y <= target_height - new_height
            /\ target_height - new_height < 2 * y + 2
            /\ right - x \in {0, 1}
            /\ bottom - y \in {0, 1}

\* a canvas has been returned whose free width is odd and whose free height
\* is even and positive: the right margin is one pixel wider than the left
C25_Witness ==
    /\ fit_pc = "returned"
    /\ (target_width - new_width) % 2 = 1
    /\ canvas.width - canvas.box[3] = canvas.box[1] + 1
    /\ canvas.box[2] > 0
    /\ canvas.height - canvas.box[4] = canvas.box[2]

\* C27: in the canvas fit_to_canvas returns, every pixel outside the
\* rectangle the scaled sprite is pasted into is fully transparent,
\* (0, 0, 0, 0): the canvas is created transparent and only the rectangle
\* can become non-transparent.
C27_OutsideTransparent ==
    fit_pc = "returned" =>
        /\ DOMAIN canvas_pixels = Coords(target_width, target_height)
        /\ \A c \in Coords(target_width, target_height) :
              ~(/\ canvas.box[1] <= c[1] /\ c[1] < canvas.box[3]
                /\ canvas.box[2] <= c[2] /\ c[2] < canvas.box[4])
                  => canvas_pixels[c] = <<0, 0, 0, 0>>

\* a canvas has been returned with an opaque pixel inside the rectangle and
\* pixels outside it on both sides
C27_Witness ==
    /\ fit_pc = "returned"
    /\ canvas.box[1] > 0
    /\ canvas.box[3] < target_width
    /\ \E c \in Coords(target_width, target_height) : canvas_pixels[c][4] = 255

\* C28: during flood_fill_background no pixel, mask entry or visited flag is
\* read or written at a coordinate outside the region: a step of the loop
\* touches a flag, a pixel or a mask entry only at the dequeued coordinate
\* and only when that lies inside, the flags and the mask never hold a
\* coordinate outside, and the variant that tests a flag before it enqueues
\* a neighbour tests it for neighbours inside only.
C28_AccessInBounds ==
    [][(pc = "loop" /\ queue # << >>) =>
          /\ visited' \subseteq Coords(width, height)
          /\ DOMAIN alpha' = Coords(width, height)
          /\ \A c \in visited' \ visited :
                c = Front /\ InBounds(Front, width, height)
          /\ \A c \in Coords(width, height) :
                (alpha'[c] # alpha[c] \/ classified'[c] # classified[c]) =>
                    (c = Front /\ InBounds(Front, width, height))
          /\ (variant = 1 /\ Len(queue') >= Len(queue)) =>
                \A i \in Len(queue) .. Len(queue') :
                    InBounds(queue'[i], width, height)
      ]_vars

\* the variant that enqueues without a bounds check has dequeued a
\* coordinate left of or above the region, which Python would index from
\* the far edge
C28_Witness ==
    /\ pc = "loop"
    /\ variant = 2
    /\ queue # << >>
    /\ (Front[1] < 0 \/ Front[2] < 0)
    /\ visited # {}

\* C29: for every region, background colour and tolerance the two
\* implementations of the flood fill return the same mask: the mask the
\* loop of one variant returns is the mask the other variant computes for
\* the same arguments.
C29_VariantsAgree ==
    pc = "done" =>
        alpha = flood_fill_background(3 - variant, width, height, pixels,
                                      bg_color, tolerance)

\* a variant has returned a mask with an opaque pixel and with a
\* transparent pixel off the border, which the fill reached by spreading
C29_Witness ==
    /\ pc = "done"
    /\ \E c, d \in Coords(width, height) :
          /\ alpha[c] = 255
          /\ alpha[d] = 0
          /\ ~IsBorder(d, width, height)

\* C30: for every source of width and height at least 1 and every target
\* whose available width and height are positive, the scaled size is at
\* least 1 in both dimensions: resize is always given a non-empty size.
C30_ScaledAtLeastOne ==
    (/\ fit_pc \in {"scaled", "returned", "raised"}
     /\ img_width >= 1 /\ img_height >= 1
     /\ Available(target_width, padding) > 0
     /\ Available(target_height, padding) > 0) =>
        (new_width >= 1 /\ new_height >= 1)

====
